---- MODULE Spec2Model ----
(***************************************************************************)
(* Edge camera client (scripts/camera_client.py): the stream uplink        *)
(* (AsyncWebSocketClient: render thread -> asyncio loop thread -> relay)    *)
(* and the inference worker (ai_worker) with its verification threads       *)
(* (verify_face_worker).                                                    *)
(*                                                                          *)
(* Time is counted in whole seconds.  Frames handed to the uplink are       *)
(* numbered 1, 2, 3, ... in the order the render loop produces them.        *)
(***************************************************************************)
EXTENDS Integers, Sequences, FiniteSets, TLC

\* ---------------------------------------------------------------- bounds
\* Frames the render loop hands to the uplink in one run.
MaxFrames == 3
\* Times the relay may go down in one run.
MaxOutages == 1

\* The clock when the client starts, in seconds after last_api_call's initial 0
\* (time.time() is far above the debounce interval at any start).
StartTime == 2
\* The clock value up to which the model follows a run.
MaxTime == 8
\* verify_face_worker threads started in one run; ai_worker starts no further
\* pass once as many were started.
MaxCalls == 2
\* In a run whose captured frames are numbered, the frames the device delivers.
MaxSerial == 3
\* Processes the script runner starts in one run.
MaxRuns == 2
\* Output lines a started process writes.
MaxLines == 1
\* stop_script requests accepted during one run of a script.
MaxStops == 2
\* Requests that reach mark_attendance.
MaxRequests == 2
\* Days the server's clock passes through.
MaxDay == 2
\* Browsers that open /ws/stream.
MaxViewers == 3
\* Frames the camera client sends to /ws/video-input.
MaxInput == 2

\* ------------------------------------------------------ program constants
\* asyncio.Queue(maxsize=1)
QueueMaxSize == 1
\* await asyncio.sleep(2)
BACKOFF == 2
\* MIN_BRIGHTNESS = 60 (mean grey level, 0..255)
MIN_BRIGHTNESS == 60
\* MIN_FACE_WIDTH = 60 (pixels)
MIN_FACE_WIDTH == 60
\* MIN_DET_SCORE = 0.60, in hundredths
MIN_DET_SCORE == 60
\* the spatial key's bucket: center // 50
BUCKET == 50
\* (current_time - last_api_call) > 1.0
DEBOUNCE_INTERVAL == 1
\* "expiry": time.time() + 5.0
CACHE_TTL == 5
\* requests.post(..., timeout=5)
REQUEST_TIMEOUT == 5
\* Bounding-box coordinates are floats; the model keeps them in tenths of a pixel.
SubPixel == 10
\* MAX_LOG_LINES = 600
MAX_LOG_LINES == 600
\* Exit codes of a process ended by SIGTERM and by SIGKILL.
TERMINATED == -15
KILLED == -9
\* None in the integer-valued fields of ScriptState: no exit code is 256, the
\* readings of the clock and the process handles count from 1.
NoExitCode == 256
NoTime == 0
NoProcess == 0

VARIABLES
    \* ---- AsyncWebSocketClient
    loopRunning,   \* self.loop.is_running()
    queue,         \* self.queue: the frames in the asyncio.Queue, oldest first
    ready,         \* the event loop's FIFO of callbacks scheduled and not yet run
    wpc,           \* where the _main_loop task stands
    awaiting,      \* the task is suspended and nothing has scheduled its wake-up
    inflight,      \* frames passed to websocket.send whose send has not ended
    openConns,     \* websocket connections opened and not yet closed
    sleepLeft,     \* seconds left of the running asyncio.sleep
    \* ---- the relay and the network
    relayUp,       \* the relay accepts connections
    relayStable,   \* the relay will not go down any more
    connAlive,     \* the connection the worker holds still reaches the relay
    outages,       \* how many times the relay went down
    \* ---- the render thread inside send_frame
    ppc,           \* position in send_frame ("idle" between calls)
    pframe,        \* the frame_bytes argument of the running call
    \* ---- record of the run
    handed,        \* frames whose send_frame call has returned, in order
    attempted,     \* frames passed to websocket.send, in order
    sent,          \* frames whose websocket.send completed, in order
    rejected,      \* frames whose put_nowait callback raised QueueFull
    deqLog,        \* per dequeue by the worker: <<frame, last frame handed before>>
    backoffs,      \* the last completed backoff: <<seconds slept, connections then open>>
    \* ---- the pipeline's globals
    now,                 \* time.time(), in seconds
    latest_frame,        \* the frame the render loop shares with ai_worker (None at start)
    detected_faces,      \* the published detection snapshot
    recognition_results, \* face_key -> [name, color, expiry]
    last_api_call,       \* the debounce clock
    \* ---- ai_worker's locals
    aipc,                \* position in the pass: "top", "bright", "detect", "faces"
    img_copy,            \* the frame the pass works on
    faces,               \* app.get(img_rgb): the detector's output, in its order
    idx,                 \* the face the for loop is at
    valid_faces,         \* the faces that passed the gates so far
    current_time,        \* time.time() read after the detection
    \* ---- verify_face_worker threads, in the order they were started: the key
    \* and person each was started for, the pass time it was started at and how
    \* it ended
    calls,
    \* ---- record of the running pass
    pass,                \* [open, valid, unresolved, dispatched]: indices into faces
    lastPass,            \* how ai_worker's last pass ended: "none", "dark", "published"
    \* ---- the capture device and ThreadedCamera
    devOk,         \* the device delivers frames
    read_failed,   \* capture.read() has returned ret = False to the program
    cam_ret,       \* self.ret
    cam_frame,     \* self.frame
    cam_stopped,   \* self.stopped
    cam_open,      \* self.capture.isOpened()
    cpc,           \* the camera: "init" (not constructed), "loop" (update runs), "done"
    \* ---- start_camera: the render loop
    running,       \* the global `running`
    rpc,           \* position in the loop: "init", "read", "share", "copy", "draw",
                   \* "send", "key", "done"
    frame,         \* the local `frame`
    faces_to_draw, \* the local snapshot of detected_faces
    vis_frame,     \* the local `vis_frame`
    \* ---- which pixel buffer each reference points to (0: none); two references
    \* with the same number are the same array
    buf,
    \* ---- which of the two clients runs: "scripts" (scripts/camera_client.py)
    \* or "root" (camera_client.py)
    entry,
    \* ---- record of the capture: frames are numbered in the order
    \* capture.read() delivered them
    serial,        \* the number the next delivered frame gets (0: frames are not numbered)
    cam_n,         \* the number of the frame in self.frame
    frame_n,       \* the number of the frame the last cam.read() returned
    \* ---- the client's threads seen at the grain of their lock operations
    lpc,           \* thread -> the statement it is at
    lock_owner,    \* lock -> the thread inside its `with` block ("none": free)
    \* ---- LocalScriptRunner
    states,        \* self._states: script_id -> ScriptState
    procs,         \* the processes start_script has started, in order, each with
                   \* its _stream_output thread: [script, alive, code, signalled,
                   \* stream, lines, stops]
    callers,       \* per calling thread: the stop_script call it is inside
                   \* ([id, process, pc]) or None
    last_call,     \* the last start_script or stop_script call that returned or
                   \* raised: [n, op, id, raised], n alternating between 0 and 1
                   \* from one call to the next
    rnow,          \* datetime.now(timezone.utc), as a count of its readings
    \* ---- AttendanceService, its table and its cache
    attendance,    \* the rows of table attendance in the order of their
                   \* commit: [person_id, date]
    cache_keys,    \* the keys the cache holds: [person_id, date]
    requests,      \* request -> its mark_attendance call: [pc, person_id, today,
                   \* session, record, created, read_failed, write_failed]
    date_today,    \* datetime.date.today()
    \* ---- the relay: ConnectionManager and the two websocket endpoints
    active_connections,  \* manager.active_connections, a list of viewers
    viewer,        \* viewer -> "away" (not connected yet), "connected",
                   \* "closed" (the peer is gone, the handler of /ws/stream has
                   \* not seen it yet), "gone" (the handler has ended)
    video_frame,   \* the number of the last frame video-input received
    iter_at,       \* broadcast_video: the position of the list iterator
                   \* (0: no broadcast in progress)
    delivered,     \* viewer -> the frames send_bytes delivered to it, in order
    audience       \* the viewers connected when the frame in broadcast was
                   \* received and connected ever since

uplinkVars == <<loopRunning, queue, ready, wpc, awaiting, inflight, openConns,
                sleepLeft, relayUp, relayStable, connAlive, outages, ppc, pframe,
                handed, attempted, sent, rejected, deqLog, backoffs>>

pipeVars == <<now, latest_frame, detected_faces, recognition_results,
              last_api_call, aipc, img_copy, faces, idx,
              valid_faces, current_time, calls, pass, lastPass>>

stageVars == <<devOk, read_failed, cam_ret, cam_frame, cam_stopped, cam_open, cpc,
               running, rpc, frame, faces_to_draw, vis_frame, buf, entry,
               serial, cam_n, frame_n>>

\* The state kept outside the dataflow of the client: who holds which lock of
\* the client.
lockVars == <<lpc, lock_owner>>

runnerVars == <<states, procs, callers, last_call, rnow>>

attVars == <<attendance, cache_keys, requests, date_today>>

fanVars == <<active_connections, viewer, video_frame, iter_at, delivered,
             audience>>

sideVars == <<lockVars, runnerVars, attVars, fanVars>>

vars == <<uplinkVars, pipeVars, stageVars, sideVars>>

Last(s) == s[Len(s)]

\* The newest frame whose send_frame call has returned (0: none yet).
LastHanded == IF handed = <<>> THEN 0 ELSE Last(handed)

\* ------------------------------------------------------------------ Init
InitUplink ==
    /\ loopRunning = FALSE
    /\ queue = <<>>
    /\ ready = <<>>
    /\ wpc = "start"
    /\ awaiting = FALSE
    /\ inflight = {}
    /\ openConns = 0
    /\ sleepLeft = 0
    /\ relayUp = FALSE
    /\ relayStable = FALSE
    /\ connAlive = FALSE
    /\ outages = 0
    /\ ppc = "idle"
    /\ pframe = 0
    /\ handed = <<>>
    /\ attempted = <<>>
    /\ sent = <<>>
    /\ rejected = {}
    /\ deqLog = <<>>
    /\ backoffs = <<>>

UnchangedRecord == UNCHANGED <<handed, attempted, sent, rejected, deqLog, backoffs>>
UnchangedNet == UNCHANGED <<relayUp, relayStable, connAlive, outages>>
UnchangedProducer == UNCHANGED <<ppc, pframe>>

\* ------------------------------------------------- the render thread: send_frame
\* send_frame(frame_bytes) is entered; `if self.loop.is_running()` is read.
\* With the loop not running yet the call returns at once and the frame is gone.
SendFrame_Call ==
    /\ ppc = "idle"
    /\ Len(handed) < MaxFrames
    /\ LET f == Len(handed) + 1 IN
         IF loopRunning
           THEN /\ ppc' = "full"
                /\ pframe' = f
                /\ handed' = handed
           ELSE /\ ppc' = "idle"
                /\ pframe' = 0
                /\ handed' = Append(handed, f)
    /\ UNCHANGED <<loopRunning, queue, ready, wpc, awaiting, inflight, openConns,
                   sleepLeft, attempted, sent, rejected, deqLog, backoffs>>
    /\ UnchangedNet
    /\ UNCHANGED <<pipeVars, stageVars>>
    /\ UNCHANGED sideVars

\* `if self.queue.full()`, read on the render thread.
SendFrame_Full ==
    /\ ppc = "full"
    /\ ppc' = IF Len(queue) >= QueueMaxSize THEN "discard" ELSE "schedule"
    /\ UNCHANGED <<loopRunning, queue, ready, wpc, awaiting, inflight, openConns,
                   sleepLeft, pframe>>
    /\ UnchangedNet /\ UnchangedRecord
    /\ UNCHANGED <<pipeVars, stageVars>>
    /\ UNCHANGED sideVars

\* `self.queue.get_nowait()` on the render thread; QueueEmpty is swallowed.
SendFrame_Discard ==
    /\ ppc = "discard"
    /\ queue' = IF queue = <<>> THEN queue ELSE Tail(queue)
    /\ ppc' = "schedule"
    /\ UNCHANGED <<loopRunning, ready, wpc, awaiting, inflight, openConns,
                   sleepLeft, pframe>>
    /\ UnchangedNet /\ UnchangedRecord
    /\ UNCHANGED <<pipeVars, stageVars>>
    /\ UNCHANGED sideVars

\* A put that waits for room in the queue before it is handed to the loop.
SendFrame_ScheduleBlocking ==
    /\ ppc = "schedule"
    /\ Len(queue) < QueueMaxSize
    /\ ready' = Append(ready, <<"put", pframe>>)
    /\ handed' = Append(handed, pframe)
    /\ ppc' = "idle"
    /\ pframe' = 0
    /\ UNCHANGED <<loopRunning, queue, wpc, awaiting, inflight, openConns,
                   sleepLeft, attempted, sent, rejected, deqLog, backoffs>>
    /\ UnchangedNet
    /\ UNCHANGED <<pipeVars, stageVars>>
    /\ UNCHANGED sideVars

\* `self.loop.call_soon_threadsafe(self.queue.put_nowait, frame_bytes)`: the put
\* is appended to the loop's callbacks and send_frame returns.
SendFrame_Schedule ==
    /\ ppc = "schedule"
    /\ ready' = Append(ready, <<"put", pframe>>)
    /\ handed' = Append(handed, pframe)
    /\ ppc' = "idle"
    /\ pframe' = 0
    /\ UNCHANGED <<loopRunning, queue, wpc, awaiting, inflight, openConns,
                   sleepLeft, attempted, sent, rejected, deqLog, backoffs>>
    /\ UnchangedNet
    /\ UNCHANGED <<pipeVars, stageVars>>
    /\ UNCHANGED sideVars

\* ------------------------------------------------- the loop thread
\* _start_loop: run_until_complete(self._main_loop()) schedules the task's
\* first step and the loop is running from then on.
StartLoop ==
    /\ ~loopRunning
    /\ loopRunning' = TRUE
    /\ ready' = Append(ready, <<"step", "go">>)
    /\ UNCHANGED <<queue, wpc, awaiting, inflight, openConns, sleepLeft>>
    /\ UnchangedNet /\ UnchangedProducer /\ UnchangedRecord
    /\ UNCHANGED <<pipeVars, stageVars>>
    /\ UNCHANGED sideVars

\* The loop runs the callback queue.put_nowait(f): QueueFull when the queue is
\* full (the loop logs it and the frame is gone), else the frame is stored and
\* the task waiting in queue.get() is woken.
RunPut ==
    /\ loopRunning
    /\ ready # <<>>
    /\ Head(ready)[1] = "put"
    /\ LET f == Head(ready)[2] IN
         IF Len(queue) >= QueueMaxSize
           THEN /\ rejected' = rejected \cup {f}
                /\ ready' = Tail(ready)
                /\ UNCHANGED <<queue, awaiting>>
           ELSE /\ queue' = Append(queue, f)
                /\ rejected' = rejected
                /\ IF wpc = "getting" /\ awaiting
                     THEN /\ awaiting' = FALSE
                          /\ ready' = Append(Tail(ready), <<"step", "go">>)
                     ELSE /\ awaiting' = awaiting
                          /\ ready' = Tail(ready)
    /\ UNCHANGED <<loopRunning, wpc, inflight, openConns, sleepLeft,
                   handed, attempted, sent, deqLog, backoffs>>
    /\ UnchangedNet /\ UnchangedProducer
    /\ UNCHANGED <<pipeVars, stageVars>>
    /\ UNCHANGED sideVars

\* `frame_bytes = await self.queue.get()` followed by
\* `await websocket.send(frame_bytes)`: with the queue empty the task waits for a
\* put; otherwise it takes the oldest frame and starts sending it.  `rest` are
\* the sends still in progress when the task gets here.
GetThenSend(rest) ==
    IF queue = <<>>
      THEN /\ wpc' = "getting"
           /\ awaiting' = TRUE
           /\ inflight' = rest
           /\ UNCHANGED <<queue, attempted, deqLog>>
      ELSE /\ wpc' = "sending"
           /\ awaiting' = TRUE
           /\ queue' = Tail(queue)
           /\ inflight' = rest \cup {Head(queue)}
           /\ attempted' = Append(attempted, Head(queue))
           /\ deqLog' = Append(deqLog, <<Head(queue), LastHanded>>)

\* On an exception out of the connection block, the task sleeps without
\* closing the connection it holds.
AfterSendFailureNoClose ==
    /\ wpc' = "backoff"
    /\ awaiting' = TRUE
    /\ sleepLeft' = BACKOFF
    /\ inflight' = {}
    /\ UNCHANGED <<queue, openConns, attempted, sent, deqLog, backoffs>>

\* On a failed send the frame goes back to the head of the queue.
AfterSendFailureRequeue ==
    /\ wpc' = "closing"
    /\ awaiting' = TRUE
    /\ queue' = <<CHOOSE f \in inflight : TRUE>> \o queue
    /\ inflight' = {}
    /\ UNCHANGED <<openConns, sleepLeft, attempted, sent, deqLog, backoffs>>

\* websocket.send raised: the exception leaves `async with`, whose exit closes
\* the connection before the except clause runs.
AfterSendFailure ==
    /\ wpc' = "closing"
    /\ awaiting' = TRUE
    /\ inflight' = {}
    /\ UNCHANGED <<queue, openConns, sleepLeft, attempted, sent, deqLog, backoffs>>

\* `await asyncio.sleep(2)` is over: `while True` calls websockets.connect again.
AfterBackoff ==
    /\ wpc' = "connecting"
    /\ awaiting' = TRUE
    /\ backoffs' = <<BACKOFF - sleepLeft, openConns>>
    /\ UNCHANGED <<queue, inflight, openConns, sleepLeft, attempted, sent, deqLog>>

\* The loop resumes the _main_loop task where it was suspended.
RunStep ==
    /\ loopRunning
    /\ ready # <<>>
    /\ Head(ready)[1] = "step"
    /\ ready' = Tail(ready)
    /\ LET ev == Head(ready)[2] IN
         CASE wpc = "start" ->
                \* websockets.connect(self.uri) is awaited
                /\ wpc' = "connecting"
                /\ awaiting' = TRUE
                /\ UNCHANGED <<queue, inflight, openConns, sleepLeft,
                               attempted, sent, deqLog, backoffs>>
           [] wpc = "connecting" /\ ev = "ok" ->
                \* inside `async with`: "Connected to Stream Relay"
                /\ openConns' = openConns + 1
                /\ GetThenSend(inflight)
                /\ UNCHANGED <<sleepLeft, sent, backoffs>>
           [] wpc = "connecting" /\ ev = "fail" ->
                \* except Exception: await asyncio.sleep(2)
                /\ wpc' = "backoff"
                /\ awaiting' = TRUE
                /\ sleepLeft' = BACKOFF
                /\ UNCHANGED <<queue, inflight, openConns, attempted, sent,
                               deqLog, backoffs>>
           [] wpc = "getting" ->
                \* queue.get() wakes and looks at the queue again
                /\ GetThenSend(inflight)
                /\ UNCHANGED <<openConns, sleepLeft, sent, backoffs>>
           [] wpc = "sending" /\ ev = "ok" ->
                \* the send is over; back to queue.get()
                /\ sent' = sent \o <<CHOOSE f \in inflight : TRUE>>
                /\ GetThenSend({})
                /\ UNCHANGED <<openConns, sleepLeft, backoffs>>
           [] wpc = "sending" /\ ev = "fail" ->
                AfterSendFailure
           [] wpc = "closing" ->
                \* the connection is closed; except Exception: await asyncio.sleep(2)
                /\ openConns' = openConns - 1
                /\ wpc' = "backoff"
                /\ awaiting' = TRUE
                /\ sleepLeft' = BACKOFF
                /\ UNCHANGED <<queue, inflight, attempted, sent, deqLog, backoffs>>
           [] wpc = "backoff" ->
                AfterBackoff
    /\ UNCHANGED <<loopRunning, handed, rejected>>
    /\ UnchangedNet /\ UnchangedProducer
    /\ UNCHANGED <<pipeVars, stageVars>>
    /\ UNCHANGED sideVars

\* ------------------------------------------------- the network and the clock
\* websockets.connect completes: the handshake succeeded.
NetConnectOk ==
    /\ wpc = "connecting" /\ awaiting
    /\ relayUp
    /\ awaiting' = FALSE
    /\ connAlive' = TRUE
    /\ ready' = Append(ready, <<"step", "ok">>)
    /\ UNCHANGED <<loopRunning, queue, wpc, inflight, openConns, sleepLeft,
                   relayUp, relayStable, outages>>
    /\ UnchangedProducer /\ UnchangedRecord
    /\ UNCHANGED <<pipeVars, stageVars>>
    /\ UNCHANGED sideVars

\* websockets.connect raises: the relay is not reachable.
NetConnectFail ==
    /\ wpc = "connecting" /\ awaiting
    /\ ~relayUp
    /\ awaiting' = FALSE
    /\ ready' = Append(ready, <<"step", "fail">>)
    /\ UNCHANGED <<loopRunning, queue, wpc, inflight, openConns, sleepLeft>>
    /\ UnchangedNet /\ UnchangedProducer /\ UnchangedRecord
    /\ UNCHANGED <<pipeVars, stageVars>>
    /\ UNCHANGED sideVars

\* websocket.send completes on a connection that reaches the relay.
NetSendOk ==
    /\ wpc = "sending" /\ awaiting
    /\ connAlive
    /\ awaiting' = FALSE
    /\ ready' = Append(ready, <<"step", "ok">>)
    /\ UNCHANGED <<loopRunning, queue, wpc, inflight, openConns, sleepLeft>>
    /\ UnchangedNet /\ UnchangedProducer /\ UnchangedRecord
    /\ UNCHANGED <<pipeVars, stageVars>>
    /\ UNCHANGED sideVars

\* websocket.send raises on a connection that was lost.
NetSendFail ==
    /\ wpc = "sending" /\ awaiting
    /\ ~connAlive
    /\ awaiting' = FALSE
    /\ ready' = Append(ready, <<"step", "fail">>)
    /\ UNCHANGED <<loopRunning, queue, wpc, inflight, openConns, sleepLeft>>
    /\ UnchangedNet /\ UnchangedProducer /\ UnchangedRecord
    /\ UNCHANGED <<pipeVars, stageVars>>
    /\ UNCHANGED sideVars

\* The close started by leaving `async with` is over.
NetCloseDone ==
    /\ wpc = "closing" /\ awaiting
    /\ awaiting' = FALSE
    /\ connAlive' = FALSE
    /\ ready' = Append(ready, <<"step", "go">>)
    /\ UNCHANGED <<loopRunning, queue, wpc, inflight, openConns, sleepLeft,
                   relayUp, relayStable, outages>>
    /\ UnchangedProducer /\ UnchangedRecord
    /\ UNCHANGED <<pipeVars, stageVars>>
    /\ UNCHANGED sideVars

\* One second of the backoff sleep passes.
SleepTick ==
    /\ wpc = "backoff" /\ awaiting
    /\ sleepLeft > 0
    /\ sleepLeft' = sleepLeft - 1
    /\ UNCHANGED <<loopRunning, queue, ready, wpc, awaiting, inflight, openConns>>
    /\ UnchangedNet /\ UnchangedProducer /\ UnchangedRecord
    /\ UNCHANGED <<pipeVars, stageVars>>
    /\ UNCHANGED sideVars

\* A sleep whose timer fires without the delay having passed.
TimerFireEarly ==
    /\ wpc = "backoff" /\ awaiting
    /\ awaiting' = FALSE
    /\ ready' = Append(ready, <<"step", "go">>)
    /\ UNCHANGED <<loopRunning, queue, wpc, inflight, openConns, sleepLeft>>
    /\ UnchangedNet /\ UnchangedProducer /\ UnchangedRecord
    /\ UNCHANGED <<pipeVars, stageVars>>
    /\ UNCHANGED sideVars

\* asyncio.sleep(2): the loop's timer fires once the delay has passed.
TimerFire ==
    /\ wpc = "backoff" /\ awaiting
    /\ sleepLeft = 0
    /\ awaiting' = FALSE
    /\ ready' = Append(ready, <<"step", "go">>)
    /\ UNCHANGED <<loopRunning, queue, wpc, inflight, openConns, sleepLeft>>
    /\ UnchangedNet /\ UnchangedProducer /\ UnchangedRecord
    /\ UNCHANGED <<pipeVars, stageVars>>
    /\ UNCHANGED sideVars

\* The relay goes down: new connections are refused and the open one is lost.
RelayDown ==
    /\ relayUp /\ ~relayStable
    /\ outages < MaxOutages
    /\ relayUp' = FALSE
    /\ connAlive' = FALSE
    /\ outages' = outages + 1
    /\ UNCHANGED <<loopRunning, queue, ready, wpc, awaiting, inflight, openConns,
                   sleepLeft, relayStable>>
    /\ UnchangedProducer /\ UnchangedRecord
    /\ UNCHANGED <<pipeVars, stageVars>>
    /\ UNCHANGED sideVars

\* The relay comes back.
RelayBack ==
    /\ ~relayUp
    /\ relayUp' = TRUE
    /\ UNCHANGED <<loopRunning, queue, ready, wpc, awaiting, inflight, openConns,
                   sleepLeft, relayStable, connAlive, outages>>
    /\ UnchangedProducer /\ UnchangedRecord
    /\ UNCHANGED <<pipeVars, stageVars>>
    /\ UNCHANGED sideVars

\* From here on the relay stays reachable.
RelayStaysUp ==
    /\ relayUp /\ ~relayStable
    /\ relayStable' = TRUE
    /\ UNCHANGED <<loopRunning, queue, ready, wpc, awaiting, inflight, openConns,
                   sleepLeft, relayUp, connAlive, outages>>
    /\ UnchangedProducer /\ UnchangedRecord
    /\ UNCHANGED <<pipeVars, stageVars>>
    /\ UNCHANGED sideVars

\* ================================================= the inference pipeline
\* Python's None, where a frame is expected.
None == [none |-> TRUE]

\* --- what the detector can see.  A face is its bounding box <<x0, y0, x1, y1>>
\* in tenths of a pixel, its detection score in hundredths and the person the
\* embedding belongs to.
FaceJane  == [bbox |-> <<1000, 1000, 2200, 2600>>, score |-> 90, who |-> "Jane"]
FaceJane2 == [bbox |-> <<1104, 1108, 2102, 2506>>, score |-> 85, who |-> "Jane"]
FaceBob   == [bbox |-> <<3200, 1000, 3800, 2000>>, score |-> 60, who |-> "Bob"]
FaceBlur  == [bbox |-> <<2000, 4000, 3000, 5000>>, score |-> 59, who |-> "Dan"]
FaceFar   == [bbox |-> <<100, 100, 690, 900>>, score |-> 95, who |-> "Eve"]
FaceEdge  == [bbox |-> <<109, 3005, 702, 3801>>, score |-> 70, who |-> "Finn"]

\* --- the frames the camera can deliver: mean brightness and the faces in view.
SceneDark  == [bright |-> 40,  faces |-> <<FaceJane>>]
SceneThree == [bright |-> 120, faces |-> <<FaceJane, FaceBob, FaceEdge>>]
SceneGates == [bright |-> 60,  faces |-> <<FaceBlur, FaceFar, FaceJane2>>]
Scenes == {SceneDark, SceneThree, SceneGates}

\* numpy's astype(int) on a float: truncation towards zero.
AsInt(x) == IF x >= 0 THEN x \div SubPixel ELSE -((-x) \div SubPixel)

\* bbox = face.bbox.astype(int)
IntBox(face) == [i \in 1..4 |-> AsInt(face.bbox[i])]

\* width = bbox[2] - bbox[0]
Width(face) == IntBox(face)[3] - IntBox(face)[1]

\* A gate that looks at the detection score only.
PassesQualityWidthOnly(face) == ~(Width(face) < MIN_FACE_WIDTH)

PassesQualityScoreOnly(face) == ~(face.score < MIN_DET_SCORE)

\* The two `continue`s of the for loop: the face is kept unless its score is
\* below MIN_DET_SCORE or its width is below MIN_FACE_WIDTH.
PassesQuality(face) ==
    /\ ~(face.score < MIN_DET_SCORE)
    /\ ~(Width(face) < MIN_FACE_WIDTH)

\* face_key = f"{center_x // 50}_{center_y // 50}", kept as the pair of numbers
\* the string is printed from.
FaceKey(face) ==
    LET b == IntBox(face)
        center_x == (b[1] + b[3]) \div 2
        center_y == (b[2] + b[4]) \div 2
    IN <<center_x \div BUCKET, center_y \div BUCKET>>

\* A per-key gate that does not look at the cache.
UnresolvedAlways(key, t) == TRUE

\* face_key not in recognition_results
\*   or current_time > recognition_results[face_key]["expiry"]
Unresolved(key, t) ==
    \/ key \notin DOMAIN recognition_results
    \/ t > recognition_results[key].expiry

\* A debounce gate that is always open.
DebounceOpenAlways(t) == TRUE

\* (current_time - last_api_call) > 1.0
DebounceOpen(t) == (t - last_api_call) > DEBOUNCE_INTERVAL

\* A render loop that keys a face by the corner of its box.
RenderKeyCorner(face) ==
    <<IntBox(face)[1] \div BUCKET, IntBox(face)[2] \div BUCKET>>

\* The render loop's own computation of the key of a face of its snapshot:
\* bbox = face.bbox.astype(int); center_x = (bbox[0] + bbox[2]) // 2;
\* center_y = (bbox[1] + bbox[3]) // 2; f"{center_x // 50}_{center_y // 50}".
RenderKey(face) ==
    LET bbox == IntBox(face)
        center_x == (bbox[1] + bbox[3]) \div 2
        center_y == (bbox[2] + bbox[4]) \div 2
    IN <<center_x \div 50, center_y \div 50>>

\* name, color = "Scanning...", (0, 255, 255): what the render loop draws for a
\* face without a usable entry.
Pending == [name |-> "Scanning...", color |-> "yellow"]

\* The render loop's lookup at time t: the entry's name and color when
\* face_key is in recognition_results and t < expiry, else the pending styling.
RenderLabel(key, t) ==
    IF key \in DOMAIN recognition_results /\ t < recognition_results[key].expiry
      THEN [name |-> recognition_results[key].name,
            color |-> recognition_results[key].color]
      ELSE Pending

InFlight == {i \in DOMAIN calls : calls[i].state = "inflight"}

NewPass == [open |-> FALSE, valid |-> <<>>, unresolved |-> <<>>, dispatched |-> <<>>]

InitPipeline ==
    /\ now = StartTime
    /\ latest_frame = None
    /\ detected_faces = <<>>
    /\ recognition_results = <<>>
    /\ last_api_call = 0
    /\ aipc = "top"
    /\ img_copy = None
    /\ faces = <<>>
    /\ idx = 0
    /\ valid_faces = <<>>
    /\ current_time = 0
    /\ calls = <<>>
    /\ pass = NewPass
    /\ lastPass = "none"

\* Before start_camera has constructed the camera.
InitStage ==
    /\ devOk = TRUE
    /\ read_failed = FALSE
    /\ cam_ret = FALSE
    /\ cam_frame = None
    /\ cam_stopped = FALSE
    /\ cam_open = FALSE
    /\ cpc = "init"
    /\ running = TRUE
    /\ rpc = "init"
    /\ frame = None
    /\ faces_to_draw = <<>>
    /\ vis_frame = None
    /\ buf = [cam |-> 0, frame |-> 0, latest |-> 0, vis |-> 0]
    /\ cam_n = 0
    /\ frame_n = 0

\* ---- the threads and the locks of scripts/camera_client.py
\* start_camera's loop, ThreadedCamera.update, ai_worker and two
\* verify_face_worker threads (a thread that has returned makes room for the
\* next one started).
Verifiers == {"verify1", "verify2"}
Threads == {"render", "capture", "ai"} \cup Verifiers
\* ThreadedCamera.lock, state_lock, results_lock
Locks == {"cam_lock", "state_lock", "results_lock"}

\* No thread but the main one exists, nothing is locked.
InitLocks ==
    /\ lpc = [t \in Threads |->
                IF t = "render" THEN "construct" ELSE "unstarted"]
    /\ lock_owner = [l \in Locks |-> "none"]

\* ---- LocalScriptRunner(project_root, specs)
\* One of default_script_specs(), the one whose command needs a name; and an
\* id no spec has.
Scripts == {"register_face"}
UnknownId == "no_such_script"
\* payload.get("name", ""), stripped
Names == {"", "Ann"}
\* The threads that call stop_script.
Callers == {"caller1", "caller2"}

\* ScriptState()
InitRunner ==
    /\ states = [id \in Scripts |->
                   [status |-> "idle", started_at |-> NoTime,
                    finished_at |-> NoTime, exit_code |-> NoExitCode,
                    stop_requested |-> FALSE, process |-> NoProcess,
                    logs |-> 0]]
    /\ procs = <<>>
    /\ callers = [c \in Callers |-> None]
    /\ last_call = [n |-> 0, op |-> "none", id |-> "none", raised |-> "none"]
    /\ rnow = 1

\* The requests that reach mark_attendance, the persons they are about and
\* the days of the run.
Requests == 1..MaxRequests
Persons == {1, 2}
Days == 1..MaxDay
NoRecord == 0

\* An empty table, an empty cache, no request begun.
InitAttendance ==
    /\ attendance = <<>>
    /\ cache_keys = {}
    /\ requests = [r \in Requests |->
                     [pc |-> "idle", person_id |-> 0, today |-> 0,
                      session |-> "clean", record |-> NoRecord,
                      created |-> FALSE, read_failed |-> FALSE,
                      write_failed |-> FALSE]]
    /\ date_today = 1

Viewers == 1..MaxViewers

\* manager = ConnectionManager(): no viewer, no frame.
InitFanout ==
    /\ active_connections = <<>>
    /\ viewer = [v \in Viewers |-> "away"]
    /\ video_frame = 0
    /\ iter_at = 0
    /\ delivered = [v \in Viewers |-> <<>>]
    /\ audience = {}

InitSide == InitLocks /\ InitRunner /\ InitAttendance /\ InitFanout

\* The client whose source the constants above are taken from.
Init ==
    /\ InitUplink /\ InitPipeline /\ InitStage /\ entry = "scripts" /\ serial = 0
    /\ InitSide

\* The same start, in a run whose captured frames are numbered from 1.
InitNumbered ==
    /\ InitUplink /\ InitPipeline /\ InitStage /\ entry = "scripts" /\ serial = 1
    /\ InitSide

\* Either client is started.
InitEither ==
    /\ InitUplink /\ InitPipeline /\ InitStage
    /\ entry \in {"scripts", "root"}
    /\ serial = 0
    /\ InitSide

\* --- start_camera: the render loop hands the frame it has just read to
\* ai_worker: latest_frame = frame, under state_lock.
Render_Update ==
    /\ \E scene \in Scenes : latest_frame' = scene
    /\ UNCHANGED <<now, detected_faces, recognition_results, last_api_call, aipc,
                   img_copy, faces, idx, valid_faces, current_time, calls, pass>>
    /\ UNCHANGED <<uplinkVars, lastPass, stageVars>>
    /\ UNCHANGED sideVars

\* A worker that starts its next pass only when every verification call it
\* launched has ended.
AI_GrabAfterAnswers ==
    /\ entry = "scripts"
    /\ aipc = "top"
    /\ \A i \in DOMAIN calls : calls[i].state # "inflight"
    /\ IF ~running
         THEN /\ aipc' = "exit"
              /\ img_copy' = img_copy
         ELSE /\ Len(calls) < MaxCalls
              /\ IF latest_frame = None
                   THEN UNCHANGED <<aipc, img_copy>>
                   ELSE /\ img_copy' = latest_frame
                        /\ aipc' = "bright"
    /\ UNCHANGED <<now, latest_frame, detected_faces, recognition_results,
                   last_api_call, faces, idx, valid_faces, current_time, calls,
                   pass>>
    /\ UNCHANGED <<uplinkVars, lastPass, stageVars>>
    /\ UNCHANGED sideVars

\* --- ai_worker
\* Top of the loop: `while running` ends the thread once the flag is down;
\* otherwise copy latest_frame under state_lock; with no frame yet the worker
\* sleeps 10 ms and tries again.
AI_Grab ==
    /\ entry = "scripts"
    /\ aipc = "top"
    /\ IF ~running
         THEN /\ aipc' = "exit"
              /\ img_copy' = img_copy
         ELSE /\ Len(calls) < MaxCalls
              /\ IF latest_frame = None
                   THEN UNCHANGED <<aipc, img_copy>>
                   ELSE /\ img_copy' = latest_frame
                        /\ aipc' = "bright"
    /\ UNCHANGED <<now, latest_frame, detected_faces, recognition_results,
                   last_api_call, faces, idx, valid_faces, current_time, calls,
                   pass>>
    /\ UNCHANGED <<uplinkVars, lastPass, stageVars>>
    /\ UNCHANGED sideVars

\* A worker without the brightness gate: every frame goes to the detector.
AI_BrightnessIgnored ==
    /\ entry = "scripts"
    /\ aipc = "bright"
    /\ aipc' = "detect"
    /\ UNCHANGED <<now, latest_frame, detected_faces, recognition_results,
                   last_api_call, img_copy, faces, idx, valid_faces,
                   current_time, calls, pass, lastPass>>
    /\ UNCHANGED <<uplinkVars, stageVars>>
    /\ UNCHANGED sideVars

\* The brightness gate: a dark frame publishes the empty snapshot and ends the
\* pass before the detector runs.
AI_Brightness ==
    /\ entry = "scripts"
    /\ aipc = "bright"
    /\ IF img_copy.bright < MIN_BRIGHTNESS
         THEN /\ detected_faces' = <<>>
              /\ aipc' = "top"
              /\ img_copy' = None
              /\ lastPass' = "dark"
         ELSE /\ detected_faces' = detected_faces
              /\ aipc' = "detect"
              /\ img_copy' = img_copy
              /\ lastPass' = lastPass
    /\ UNCHANGED <<now, latest_frame, recognition_results, last_api_call,
                   faces, idx, valid_faces, current_time, calls, pass>>
    /\ UNCHANGED <<uplinkVars, stageVars>>
    /\ UNCHANGED sideVars

\* faces = app.get(img_rgb); current_time = time.time(); valid_faces = []
AI_Detect ==
    /\ entry = "scripts"
    /\ aipc = "detect"
    /\ faces' = img_copy.faces
    /\ current_time' = now
    /\ valid_faces' = <<>>
    /\ idx' = 1
    /\ aipc' = "faces"
    /\ pass' = [pass EXCEPT !.open = DebounceOpen(now)]
    /\ UNCHANGED <<now, latest_frame, detected_faces, recognition_results,
                   last_api_call, img_copy, calls>>
    /\ UNCHANGED <<uplinkVars, lastPass, stageVars>>
    /\ UNCHANGED sideVars

\* app.get(img_rgb) raises: nothing in ai_worker catches the exception, which
\* ends the thread; what was published stays as it is.
AI_DetectRaise ==
    /\ entry = "scripts"
    /\ aipc = "detect"
    /\ aipc' = "crashed"
    /\ img_copy' = None
    /\ UNCHANGED <<now, latest_frame, detected_faces, recognition_results,
                   last_api_call, faces, idx, valid_faces, current_time, calls,
                   pass>>
    /\ UNCHANGED <<uplinkVars, lastPass, stageVars>>
    /\ UNCHANGED sideVars

NewCall(face, key) ==
    [key |-> key, who |-> face.who, at |-> current_time,
     state |-> "inflight"]

\* A dispatch that starts the thread without stamping the debounce clock.
DispatchNoStamp(face, key) ==
    /\ last_api_call' = last_api_call
    /\ calls' = Append(calls, NewCall(face, key))

\* A dispatch that stamps the debounce clock with a fresh reading of the
\* clock instead of the reading the pass took after detection.
DispatchStampsNow(face, key) ==
    /\ last_api_call' = now
    /\ calls' = Append(calls, NewCall(face, key))

\* last_api_call = current_time; threading.Thread(target=verify_face_worker,
\* args=(face.embedding.tolist(), face_key)).start()
Dispatch(face, key) ==
    /\ last_api_call' = current_time
    /\ calls' = Append(calls, NewCall(face, key))

\* A turn of the loop that, when it dispatches for a key whose entry has
\* expired, drops that entry from the cache.
AI_FaceEvicting ==
    /\ entry = "scripts"
    /\ aipc = "faces"
    /\ idx <= Len(faces)
    /\ LET face == faces[idx]
           key == FaceKey(face)
       IN IF ~PassesQuality(face)
            THEN UNCHANGED <<valid_faces, last_api_call, calls, pass,
                             recognition_results>>
            ELSE /\ valid_faces' = Append(valid_faces, face)
                 /\ IF Unresolved(key, current_time)
                      THEN IF DebounceOpen(current_time)
                             THEN /\ Dispatch(face, key)
                                  /\ recognition_results' =
                                        [k \in DOMAIN recognition_results \ {key}
                                           |-> recognition_results[k]]
                                  /\ pass' = [pass EXCEPT
                                        !.valid = Append(@, idx),
                                        !.unresolved = Append(@, idx),
                                        !.dispatched = Append(@, idx)]
                             ELSE /\ UNCHANGED <<last_api_call, calls,
                                                 recognition_results>>
                                  /\ pass' = [pass EXCEPT
                                        !.valid = Append(@, idx),
                                        !.unresolved = Append(@, idx)]
                      ELSE /\ UNCHANGED <<last_api_call, calls,
                                          recognition_results>>
                           /\ pass' = [pass EXCEPT !.valid = Append(@, idx)]
    /\ idx' = idx + 1
    /\ UNCHANGED <<now, latest_frame, detected_faces, aipc, img_copy, faces,
                   current_time>>
    /\ UNCHANGED <<uplinkVars, lastPass, stageVars>>
    /\ UNCHANGED sideVars

\* One turn of `for face in faces`: the quality gates, then under results_lock
\* the per-key gate and the debounce gate.
AI_Face ==
    /\ entry = "scripts"
    /\ aipc = "faces"
    /\ idx <= Len(faces)
    /\ LET face == faces[idx]
           key == FaceKey(face)
       IN IF ~PassesQuality(face)
            THEN UNCHANGED <<valid_faces, last_api_call, calls, pass>>
            ELSE /\ valid_faces' = Append(valid_faces, face)
                 /\ IF Unresolved(key, current_time)
                      THEN IF DebounceOpen(current_time)
                             THEN /\ Dispatch(face, key)
                                  /\ pass' = [pass EXCEPT
                                        !.valid = Append(@, idx),
                                        !.unresolved = Append(@, idx),
                                        !.dispatched = Append(@, idx)]
                             ELSE /\ UNCHANGED <<last_api_call, calls>>
                                  /\ pass' = [pass EXCEPT
                                        !.valid = Append(@, idx),
                                        !.unresolved = Append(@, idx)]
                      ELSE /\ UNCHANGED <<last_api_call, calls>>
                           /\ pass' = [pass EXCEPT !.valid = Append(@, idx)]
    /\ idx' = idx + 1
    /\ UNCHANGED <<now, latest_frame, detected_faces, recognition_results,
                   aipc, img_copy, faces, current_time>>
    /\ UNCHANGED <<uplinkVars, lastPass, stageVars>>
    /\ UNCHANGED sideVars

\* After the loop: detected_faces = valid_faces, under state_lock.  The pass's
\* locals are not read again before the next pass sets them; the model clears
\* them, and the record of the pass, here.
AI_Publish ==
    /\ entry = "scripts"
    /\ aipc = "faces"
    /\ idx > Len(faces)
    /\ detected_faces' = valid_faces
    /\ aipc' = "top"
    /\ pass' = NewPass
    /\ img_copy' = None
    /\ faces' = <<>>
    /\ idx' = 0
    /\ valid_faces' = <<>>
    /\ current_time' = 0
    /\ lastPass' = "published"
    /\ UNCHANGED <<now, latest_frame, recognition_results, last_api_call, calls>>
    /\ UNCHANGED <<uplinkVars, stageVars>>
    /\ UNCHANGED sideVars

\* --- verify_face_worker
\* An entry that expires at the moment it is written.
CacheEntryNoTTL(name, color) ==
    [name |-> name, color |-> color, expiry |-> now]

\* {"name": name, "color": color, "expiry": time.time() + 5.0}
CacheEntry(name, color) ==
    [name |-> name, color |-> color, expiry |-> now + CACHE_TTL]

\* An answer whose status is neither "success" nor "ignored" is dropped.
Verify_AnswerDropsUnknown ==
    \E i \in InFlight, status \in {"success", "ignored", "unknown"} :
        LET c == calls[i]
        IN /\ recognition_results' =
                 IF status = "unknown"
                   THEN recognition_results
                   ELSE [k \in DOMAIN recognition_results \cup {c.key} |->
                           IF k = c.key THEN CacheEntry(c.who, "green")
                                        ELSE recognition_results[k]]
           /\ calls' = [calls EXCEPT ![i].state = "ok"]
           /\ UNCHANGED <<now, latest_frame, detected_faces, last_api_call,
                          aipc, img_copy, faces, idx, valid_faces,
                          current_time, pass>>
           /\ UNCHANGED <<uplinkVars, lastPass, stageVars>>
           /\ UNCHANGED sideVars

\* The server answers 200: the entry for face_key is written under results_lock
\* with the person_name of the answer, green for the statuses "success" and
\* "ignored" and red for any other.
Verify_Answer ==
    \E i \in InFlight, status \in {"success", "ignored", "unknown"} :
        LET c == calls[i]
            name == IF status = "unknown" THEN "Unknown" ELSE c.who
            color == IF status \in {"success", "ignored"} THEN "green" ELSE "red"
        IN /\ recognition_results' =
                 [k \in DOMAIN recognition_results \cup {c.key} |->
                    IF k = c.key THEN CacheEntry(name, color)
                                 ELSE recognition_results[k]]
           /\ calls' = [calls EXCEPT ![i].state = "ok"]
           /\ UNCHANGED <<now, latest_frame, detected_faces, last_api_call,
                          aipc, img_copy, faces, idx, valid_faces,
                          current_time, pass>>
           /\ UNCHANGED <<uplinkVars, lastPass, stageVars>>
           /\ UNCHANGED sideVars

\* A failed call that leaves an "Unknown" entry behind.
Verify_FailWritesUnknown ==
    \E i \in InFlight :
        /\ recognition_results' =
              [k \in DOMAIN recognition_results \cup {calls[i].key} |->
                 IF k = calls[i].key THEN CacheEntry("Unknown", "red")
                                     ELSE recognition_results[k]]
        /\ calls' = [calls EXCEPT ![i].state = "failed"]
        /\ UNCHANGED <<now, latest_frame, detected_faces, last_api_call, aipc,
                       img_copy, faces, idx, valid_faces, current_time, pass>>
        /\ UNCHANGED <<uplinkVars, lastPass, stageVars>>
        /\ UNCHANGED sideVars

\* A status other than 200, a network error or the timeout: nothing is written.
Verify_Fail ==
    \E i \in InFlight :
        /\ calls' = [calls EXCEPT ![i].state = "failed"]
        /\ UNCHANGED <<now, latest_frame, detected_faces, recognition_results,
                       last_api_call, aipc, img_copy, faces, idx,
                       valid_faces, current_time, pass>>
        /\ UNCHANGED <<uplinkVars, lastPass, stageVars>>
        /\ UNCHANGED sideVars

\* The clock moves on by one unit, at any point of any thread (also between
\* ai_worker's reading of current_time and its gate checks).  A request in
\* flight for REQUEST_TIMEOUT ends (by its answer or by the timeout) before the
\* clock moves on.
Tick ==
    /\ now < MaxTime
    /\ \A i \in InFlight : now - calls[i].at < REQUEST_TIMEOUT
    /\ now' = now + 1
    /\ UNCHANGED <<latest_frame, detected_faces, recognition_results,
                   last_api_call, aipc, img_copy, faces, idx,
                   valid_faces, current_time, calls, pass>>
    /\ UNCHANGED <<uplinkVars, lastPass, stageVars>>
    /\ UNCHANGED sideVars

\* time.time() counts from an origin the program never looks at: every test
\* of ai_worker, verify_face_worker and the render loop compares two readings
\* of the clock.  Moving the origin one unit forward lowers every stored
\* reading by one and changes the outcome of no test.  A stored reading that
\* would drop below zero stays at zero once it is so old that the tests it
\* takes part in have the same outcome for both values: an expiry that every
\* later reading of the clock exceeds, a debounce stamp more than
\* DEBOUNCE_INTERVAL before every later reading.
Lowered(reading) == IF reading > 0 THEN reading - 1 ELSE 0

Rebase ==
    /\ now > 0
    /\ aipc = "top"
    /\ last_api_call > 0 \/ now - 1 > DEBOUNCE_INTERVAL
    /\ \A k \in DOMAIN recognition_results :
          recognition_results[k].expiry > 0 \/ now - 1 > 0
    /\ \A i \in DOMAIN calls : calls[i].at > 0
    /\ now' = now - 1
    /\ last_api_call' = Lowered(last_api_call)
    /\ recognition_results' =
          [k \in DOMAIN recognition_results |->
             [recognition_results[k] EXCEPT !.expiry = Lowered(@)]]
    /\ calls' = [i \in DOMAIN calls |-> [calls[i] EXCEPT !.at = @ - 1]]
    /\ UNCHANGED <<latest_frame, detected_faces, aipc, img_copy, faces, idx,
                   valid_faces, current_time, pass>>
    /\ UNCHANGED <<uplinkVars, lastPass, stageVars>>
    /\ UNCHANGED sideVars

\* A verify_face_worker thread that has returned is gone: it leaves the list
\* of threads.
Reap ==
    \E i \in DOMAIN calls :
        /\ calls[i].state # "inflight"
        /\ calls' = [j \in 1..(Len(calls) - 1) |->
                        IF j < i THEN calls[j] ELSE calls[j + 1]]
        /\ UNCHANGED <<now, latest_frame, detected_faces, recognition_results,
                       last_api_call, aipc, img_copy, faces, idx,
                       valid_faces, current_time, pass>>
        /\ UNCHANGED <<uplinkVars, lastPass, stageVars>>
        /\ UNCHANGED sideVars

\* ================================================= the camera and the render loop
\* self.capture.set(cv2.CAP_PROP_FRAME_WIDTH, 1280)
FRAME_WIDTH == 1280

\* cv2.flip(frame, 1): the mirror image, a new array.  A face at <<x0, y0, x1, y1>>
\* is seen at <<W - x1, y0, W - x0, y1>>.
Flip(f) ==
    [bright |-> f.bright,
     faces |-> [i \in DOMAIN f.faces |->
                  [f.faces[i] EXCEPT !.bbox =
                      <<FRAME_WIDTH * SubPixel - @[3], @[2],
                        FRAME_WIDTH * SubPixel - @[1], @[4]>>]]]

\* What the device can deliver: the frames whose mirror images are the scenes.
RawFrames == {Flip(scene) : scene \in Scenes}

\* A buffer no reference points to: what a newly allocated array gets.
FreshBuf ==
    CHOOSE i \in 1..(Cardinality(DOMAIN buf) + 1) :
        /\ \A r \in DOMAIN buf : buf[r] # i
        /\ \A j \in 1..(i - 1) : \E r \in DOMAIN buf : buf[r] = j

\* Whether overlay was drawn into the pixels of a frame.
HasOverlay(f) == "overlay" \in DOMAIN f

\* The device stops delivering frames.
Device_Fail ==
    /\ devOk
    /\ devOk' = FALSE
    /\ UNCHANGED <<entry, serial, cam_n, frame_n, read_failed, cam_ret, cam_frame, cam_stopped, cam_open,
                   cpc, running, rpc, frame, faces_to_draw, vis_frame, buf>>
    /\ UNCHANGED <<uplinkVars, pipeVars>>
    /\ UNCHANGED sideVars

\* capture.read() has a frame to return: in a numbered run the device
\* delivers MaxSerial frames and then keeps capture.read() waiting.
DeviceHasFrame == serial <= MaxSerial

\* The number after `serial`.
NextSerial == IF serial = 0 THEN 0 ELSE serial + 1

\* An update that keeps a frame it already holds.
StoredKeepsFirst(old, new) == IF old.f = None THEN new ELSE old

\* self.frame = frame: the new frame replaces the old one, of which nothing is
\* kept.
Stored(old, new) == new

\* cam = ThreadedCamera(CAMERA_INDEX).start(): __init__ opens the device and
\* stores the first read in self.ret, self.frame; start() launches update;
\* start_camera then starts ai_worker and enters its loop.
Cam_Init ==
    /\ entry = "scripts"
    /\ cpc = "init"
    /\ cpc' = "loop"
    /\ rpc' = "read"
    /\ cam_open' = devOk
    /\ cam_stopped' = FALSE
    /\ IF devOk
         THEN /\ DeviceHasFrame
              /\ \E raw \in RawFrames : cam_frame' = raw
              /\ cam_n' = serial
              /\ serial' = NextSerial
              /\ cam_ret' = TRUE
              /\ buf' = [buf EXCEPT !.cam = FreshBuf]
              /\ read_failed' = read_failed
         ELSE /\ cam_frame' = None
              /\ cam_ret' = FALSE
              /\ buf' = buf
              /\ read_failed' = TRUE
              /\ UNCHANGED <<serial, cam_n>>
    /\ UNCHANGED <<entry, frame_n, devOk, running, frame, faces_to_draw, vis_frame>>
    /\ UNCHANGED <<uplinkVars, pipeVars>>
    /\ UNCHANGED sideVars

\* One turn of ThreadedCamera.update: `while not self.stopped`; with the capture
\* closed, stop() and break; else capture.read(), outside the lock: a good read
\* replaces self.ret and self.frame under the lock, a failed one calls stop()
\* and stores nothing.  stop() sets self.stopped and releases the capture.
Cam_Update ==
    /\ entry = "scripts"
    /\ cpc = "loop"
    /\ IF cam_stopped
         THEN /\ cpc' = "done"
              /\ UNCHANGED <<read_failed, cam_ret, cam_frame, cam_stopped,
                             cam_open, buf, serial, cam_n>>
         ELSE IF ~cam_open
           THEN /\ cam_stopped' = TRUE
                /\ cpc' = "done"
                /\ UNCHANGED <<read_failed, cam_ret, cam_frame, cam_open, buf,
                               serial, cam_n>>
           ELSE IF devOk
             THEN /\ DeviceHasFrame
                  /\ \E raw \in RawFrames :
                       LET kept == Stored([n |-> cam_n, f |-> cam_frame],
                                          [n |-> serial, f |-> raw])
                       IN /\ cam_frame' = kept.f
                          /\ cam_n' = kept.n
                          /\ buf' = [buf EXCEPT !.cam = FreshBuf]
                  /\ serial' = NextSerial
                  /\ cam_ret' = TRUE
                  /\ UNCHANGED <<read_failed, cam_stopped, cam_open, cpc>>
             ELSE /\ read_failed' = TRUE
                  /\ cam_stopped' = TRUE
                  /\ cam_open' = FALSE
                  /\ UNCHANGED <<cam_ret, cam_frame, buf, cpc, serial, cam_n>>
    /\ UNCHANGED <<entry, frame_n, devOk, running, rpc, frame, faces_to_draw,
                   vis_frame>>
    /\ UNCHANGED <<uplinkVars, pipeVars>>
    /\ UNCHANGED sideVars

\* ThreadedCamera.read(), under self.lock: (self.ret, self.frame.copy()), or
\* (self.ret, None) with no frame stored.
CamRead == <<cam_ret, cam_frame>>

\* ret, frame = cam.read(), which takes self.lock and nothing else; without a
\* frame the loop sleeps 10 ms and reads again; else frame = cv2.flip(frame, 1),
\* a new array.
Render_Read ==
    /\ entry = "scripts"
    /\ rpc = "read"
    /\ IF ~CamRead[1] \/ CamRead[2] = None
         THEN UNCHANGED <<rpc, frame, buf, frame_n>>
         ELSE /\ frame' = Flip(CamRead[2])
              /\ frame_n' = cam_n
              /\ buf' = [buf EXCEPT !.frame = FreshBuf]
              /\ rpc' = "share"
    /\ UNCHANGED <<entry, serial, cam_n, devOk, read_failed, cam_ret, cam_frame,
                   cam_stopped, cam_open, cpc, running, faces_to_draw, vis_frame>>
    /\ UNCHANGED <<uplinkVars, pipeVars>>
    /\ UNCHANGED sideVars

\* A snapshot that takes the list ai_worker is still building.
SnapshotInProgress == IF aipc = "faces" THEN valid_faces ELSE detected_faces

\* list(detected_faces)
SnapshotOfDetected == detected_faces

\* Under state_lock: latest_frame = frame; faces_to_draw = list(detected_faces).
Render_Share ==
    /\ entry = "scripts"
    /\ rpc = "share"
    /\ latest_frame' = frame
    /\ buf' = [buf EXCEPT !.latest = buf.frame]
    /\ faces_to_draw' = SnapshotOfDetected
    /\ rpc' = "copy"
    /\ UNCHANGED <<entry, serial, cam_n, frame_n, devOk, read_failed, cam_ret, cam_frame, cam_stopped, cam_open,
                   cpc, running, frame, vis_frame>>
    /\ UNCHANGED <<now, detected_faces, recognition_results, last_api_call, aipc,
                   img_copy, faces, idx, valid_faces, current_time, calls, pass,
                   lastPass>>
    /\ UNCHANGED uplinkVars
    /\ UNCHANGED sideVars

\* A vis_frame that is the frame itself.
VisBufferShared == buf.frame

\* frame.copy(): a new array.
VisBuffer == FreshBuf

\* vis_frame = frame.copy()
Render_Copy ==
    /\ entry = "scripts"
    /\ rpc = "copy"
    /\ vis_frame' = frame
    /\ buf' = [buf EXCEPT !.vis = VisBuffer]
    /\ rpc' = "draw"
    /\ UNCHANGED <<entry, serial, cam_n, frame_n, devOk, read_failed, cam_ret, cam_frame, cam_stopped, cam_open,
                   cpc, running, frame, faces_to_draw>>
    /\ UNCHANGED <<uplinkVars, pipeVars>>
    /\ UNCHANGED sideVars

\* The pixels of vis_frame after the drawing: "TOO DARK" on a dark frame, and
\* for each face of the snapshot its box with the name and color looked up in
\* recognition_results at the time of the drawing.
Drawn(f) ==
    [bright |-> f.bright,
     faces |-> f.faces,
     overlay |-> [too_dark |-> f.bright < MIN_BRIGHTNESS,
                  labels |-> [i \in DOMAIN faces_to_draw |->
                                RenderLabel(RenderKey(faces_to_draw[i]), now)]]]

\* cv2.putText / cv2.rectangle write into the array vis_frame points to: every
\* reference to that array sees the overlay.
Render_Draw ==
    /\ entry = "scripts"
    /\ rpc = "draw"
    /\ vis_frame' = Drawn(vis_frame)
    /\ frame' = IF buf.frame = buf.vis THEN Drawn(vis_frame) ELSE frame
    /\ latest_frame' = IF buf.latest = buf.vis THEN Drawn(vis_frame) ELSE latest_frame
    /\ cam_frame' = IF buf.cam = buf.vis THEN Drawn(vis_frame) ELSE cam_frame
    /\ rpc' = "send"
    /\ UNCHANGED <<entry, serial, cam_n, frame_n, devOk, read_failed, cam_ret, cam_stopped, cam_open, cpc,
                   running, faces_to_draw, buf>>
    /\ UNCHANGED <<now, detected_faces, recognition_results, last_api_call, aipc,
                   img_copy, faces, idx, valid_faces, current_time, calls, pass,
                   lastPass>>
    /\ UNCHANGED uplinkVars
    /\ UNCHANGED sideVars

\* cv2.imencode and ws_client.send_frame(buffer.tobytes()): the call returns
\* without waiting for the uplink, whose steps are the SendFrame actions; the
\* loop goes on to imshow and waitKey.
Render_Send ==
    /\ entry = "scripts"
    /\ rpc = "send"
    /\ rpc' = "key"
    /\ UNCHANGED <<entry, serial, cam_n, frame_n, devOk, read_failed, cam_ret, cam_frame, cam_stopped, cam_open,
                   cpc, running, frame, faces_to_draw, vis_frame, buf>>
    /\ UNCHANGED <<uplinkVars, pipeVars>>
    /\ UNCHANGED sideVars

\* cv2.waitKey(1): on 'q', running = False; cam.stop(); break.  Otherwise the
\* next iteration, whose locals are bound anew.
Render_Key ==
    /\ entry = "scripts"
    /\ rpc = "key"
    /\ \E q \in BOOLEAN :
         IF q
           THEN /\ running' = FALSE
                /\ cam_stopped' = TRUE
                /\ cam_open' = FALSE
                /\ rpc' = "done"
           ELSE /\ rpc' = "read"
                /\ UNCHANGED <<running, cam_stopped, cam_open>>
    /\ frame' = None
    /\ vis_frame' = None
    /\ faces_to_draw' = <<>>
    /\ buf' = [buf EXCEPT !.frame = 0, !.vis = 0]
    /\ UNCHANGED <<entry, serial, cam_n, frame_n, devOk, read_failed, cam_ret, cam_frame, cpc>>
    /\ UNCHANGED <<uplinkVars, pipeVars>>
    /\ UNCHANGED sideVars

\* ------------------------------------------------- camera_client.py, the
\* client at the top of the source tree: no ThreadedCamera, no quality gates,
\* and a render loop that draws into the frame it has just shared.

\* A frame without a face.
SceneEmpty == [bright |-> 120, faces |-> <<>>]

\* What the device can deliver to this client.
RootFrames == RawFrames \cup {Flip(SceneEmpty)}

\* face_key = f"{bbox[0]//40}_{bbox[1]//40}"
RootKey(face) == <<IntBox(face)[1] \div 40, IntBox(face)[2] \div 40>>

\* cap = cv2.VideoCapture(CAMERA_ID); the ai_worker thread is started and the
\* loop entered.
Root_Open ==
    /\ entry = "root"
    /\ rpc = "init"
    /\ rpc' = "read"
    /\ cam_open' = TRUE
    /\ UNCHANGED <<entry, serial, cam_n, frame_n, devOk, read_failed, cam_ret, cam_frame, cam_stopped, cpc,
                   running, frame, faces_to_draw, vis_frame, buf>>
    /\ UNCHANGED <<uplinkVars, pipeVars>>
    /\ UNCHANGED sideVars

\* ret, frame = cap.read(); `if not ret: break`, after which cap.release();
\* else frame = cv2.flip(frame, 1), a new array.
Root_Read ==
    /\ entry = "root"
    /\ rpc = "read"
    /\ IF devOk
         THEN /\ \E raw \in RootFrames : frame' = Flip(raw)
              /\ buf' = [buf EXCEPT !.frame = FreshBuf]
              /\ rpc' = "share"
              /\ UNCHANGED <<read_failed, cam_open>>
         ELSE /\ read_failed' = TRUE
              /\ cam_open' = FALSE
              /\ rpc' = "done"
              /\ UNCHANGED <<frame, buf>>
    /\ UNCHANGED <<entry, serial, cam_n, frame_n, devOk, cam_ret, cam_frame, cam_stopped, cpc, running,
                   faces_to_draw, vis_frame>>
    /\ UNCHANGED <<uplinkVars, pipeVars>>
    /\ UNCHANGED sideVars

\* Under state_lock: latest_frame = frame; faces_to_draw = detected_faces.
Root_Share ==
    /\ entry = "root"
    /\ rpc = "share"
    /\ latest_frame' = frame
    /\ buf' = [buf EXCEPT !.latest = buf.frame]
    /\ faces_to_draw' = detected_faces
    /\ rpc' = "draw"
    /\ UNCHANGED <<entry, serial, cam_n, frame_n, devOk, read_failed, cam_ret, cam_frame, cam_stopped,
                   cam_open, cpc, running, frame, vis_frame>>
    /\ UNCHANGED <<now, detected_faces, recognition_results, last_api_call, aipc,
                   img_copy, faces, idx, valid_faces, current_time, calls, pass,
                   lastPass>>
    /\ UNCHANGED uplinkVars
    /\ UNCHANGED sideVars

\* The pixels of a frame after this client's drawing loop: one box and one
\* label per face of the snapshot, and nothing for an empty snapshot.
RootDrawn(f) ==
    IF faces_to_draw = <<>>
      THEN f
      ELSE [bright |-> f.bright,
            faces |-> f.faces,
            overlay |-> [too_dark |-> FALSE,
                         labels |-> [i \in DOMAIN faces_to_draw |->
                                       RenderLabel(RootKey(faces_to_draw[i]), now)]]]

\* cv2.rectangle / cv2.putText write into the array `frame` points to, which is
\* the array latest_frame points to.
Root_Draw ==
    /\ entry = "root"
    /\ rpc = "draw"
    /\ frame' = RootDrawn(frame)
    /\ latest_frame' = IF buf.latest = buf.frame THEN RootDrawn(frame) ELSE latest_frame
    /\ rpc' = "send"
    /\ UNCHANGED <<entry, serial, cam_n, frame_n, devOk, read_failed, cam_ret, cam_frame, cam_stopped,
                   cam_open, cpc, running, faces_to_draw, vis_frame, buf>>
    /\ UNCHANGED <<now, detected_faces, recognition_results, last_api_call, aipc,
                   img_copy, faces, idx, valid_faces, current_time, calls, pass,
                   lastPass>>
    /\ UNCHANGED uplinkVars
    /\ UNCHANGED sideVars

\* cv2.imencode and ws_client.send_frame(buffer.tobytes()), then imshow.
Root_Send ==
    /\ entry = "root"
    /\ rpc = "send"
    /\ rpc' = "key"
    /\ UNCHANGED <<entry, serial, cam_n, frame_n, devOk, read_failed, cam_ret, cam_frame, cam_stopped,
                   cam_open, cpc, running, frame, faces_to_draw, vis_frame, buf>>
    /\ UNCHANGED <<uplinkVars, pipeVars>>
    /\ UNCHANGED sideVars

\* cv2.waitKey(1): on 'q', running = False; break; cap.release().  Otherwise
\* the next iteration.
Root_Key ==
    /\ entry = "root"
    /\ rpc = "key"
    /\ \E q \in BOOLEAN :
         IF q
           THEN /\ running' = FALSE
                /\ cam_open' = FALSE
                /\ rpc' = "done"
           ELSE /\ rpc' = "read"
                /\ UNCHANGED <<running, cam_open>>
    /\ frame' = None
    /\ faces_to_draw' = <<>>
    /\ buf' = [buf EXCEPT !.frame = 0]
    /\ UNCHANGED <<entry, serial, cam_n, frame_n, devOk, read_failed, cam_ret, cam_frame, cam_stopped, cpc,
                   vis_frame>>
    /\ UNCHANGED <<uplinkVars, pipeVars>>
    /\ UNCHANGED sideVars

\* This client's ai_worker, top of the loop: `while running`; with no frame yet,
\* sleep 10 ms; else img_copy = latest_frame.copy() under state_lock.
Root_AI_Grab ==
    /\ entry = "root"
    /\ aipc = "top"
    /\ IF ~running
         THEN /\ aipc' = "exit"
              /\ img_copy' = img_copy
         ELSE IF latest_frame = None
           THEN UNCHANGED <<aipc, img_copy>>
           ELSE /\ img_copy' = latest_frame
                /\ aipc' = "detect"
    /\ UNCHANGED <<now, latest_frame, detected_faces, recognition_results,
                   last_api_call, faces, idx, valid_faces, current_time, calls,
                   pass>>
    /\ UNCHANGED <<uplinkVars, lastPass, stageVars>>
    /\ UNCHANGED sideVars

\* faces = app.get(img_rgb); current_time = time.time()
Root_AI_Detect ==
    /\ entry = "root"
    /\ aipc = "detect"
    /\ faces' = img_copy.faces
    /\ current_time' = now
    /\ idx' = 1
    /\ aipc' = "faces"
    /\ UNCHANGED <<now, latest_frame, detected_faces, recognition_results,
                   last_api_call, img_copy, valid_faces, calls, pass>>
    /\ UNCHANGED <<uplinkVars, lastPass, stageVars>>
    /\ UNCHANGED sideVars

\* One face of the for loop.  For a key without a live entry the debounce test
\* reads the global last_api_call, which no statement of this file has bound:
\* NameError, which nothing catches, ends the thread.
Root_AI_Face ==
    /\ entry = "root"
    /\ aipc = "faces"
    /\ idx <= Len(faces)
    /\ IF Unresolved(RootKey(faces[idx]), current_time)
         THEN /\ aipc' = "crashed"
              /\ img_copy' = None
              /\ idx' = idx
         ELSE /\ idx' = idx + 1
              /\ UNCHANGED <<aipc, img_copy>>
    /\ UNCHANGED <<now, latest_frame, detected_faces, recognition_results,
                   last_api_call, faces, valid_faces, current_time, calls, pass>>
    /\ UNCHANGED <<uplinkVars, lastPass, stageVars>>
    /\ UNCHANGED sideVars

\* Under state_lock: detected_faces = faces.
Root_AI_Publish ==
    /\ entry = "root"
    /\ aipc = "faces"
    /\ idx > Len(faces)
    /\ detected_faces' = faces
    /\ aipc' = "top"
    /\ img_copy' = None
    /\ UNCHANGED <<now, latest_frame, recognition_results, last_api_call, faces,
                   idx, valid_faces, current_time, calls, pass>>
    /\ UNCHANGED <<uplinkVars, lastPass, stageVars>>
    /\ UNCHANGED sideVars

NextInference ==
    \/ Render_Update
    \/ AI_Grab
    \/ AI_Brightness
    \/ AI_Detect
    \/ AI_DetectRaise
    \/ AI_Face
    \/ AI_Publish
    \/ Verify_Answer
    \/ Verify_Fail
    \/ Tick

SpecInference == Init /\ [][NextInference]_vars

\* ------------------------------------------------- the inference pipeline over
\* an unbounded run in which every verification call fails: ended threads
\* leave the list and the clock's origin moves
NextRetry ==
    \/ Render_Update
    \/ AI_Grab
    \/ AI_Brightness
    \/ AI_Detect
    \/ AI_Face
    \/ AI_Publish
    \/ Verify_Fail
    \/ Tick
    \/ Rebase
    \/ Reap

SpecRetry == Init /\ [][NextRetry]_vars

\* ai_worker keeps running, every verification call ends and its thread goes
\* away, and the clock keeps going: the origin is moved again and again, so
\* that the bound on the clock's reading never stops the time.
FairRetry ==
    /\ SpecRetry
    /\ WF_vars(AI_Grab)
    /\ WF_vars(AI_Brightness)
    /\ WF_vars(AI_Detect)
    /\ WF_vars(AI_Face)
    /\ WF_vars(AI_Publish)
    /\ WF_vars(Verify_Fail)
    /\ WF_vars(Reap)
    /\ WF_vars(Tick)
    /\ SF_vars(Rebase)

\* ------------------------------------------------- the same unbounded run
\* in front of an unchanging scene, with a server that answers until the
\* first entry is in the cache and is out of reach afterwards
\* The render loop has shared its first frame, which shows three faces.
InitWatching ==
    /\ InitUplink /\ InitStage /\ entry = "scripts" /\ serial = 0
    /\ InitSide
    /\ now = StartTime
    /\ latest_frame = SceneThree
    /\ detected_faces = <<>>
    /\ recognition_results = <<>>
    /\ last_api_call = 0
    /\ aipc = "top"
    /\ img_copy = None
    /\ faces = <<>>
    /\ idx = 0
    /\ valid_faces = <<>>
    /\ current_time = 0
    /\ calls = <<>>
    /\ pass = NewPass
    /\ lastPass = "none"

\* The server's answers that arrive while the cache is still empty.
Verify_AnswerFirst == recognition_results = <<>> /\ Verify_Answer

NextHeal ==
    \/ AI_Grab
    \/ AI_Brightness
    \/ AI_Detect
    \/ AI_Face
    \/ AI_Publish
    \/ Verify_AnswerFirst
    \/ Verify_Fail
    \/ Tick
    \/ Rebase
    \/ Reap

SpecHeal == InitWatching /\ [][NextHeal]_vars

FairHeal ==
    /\ SpecHeal
    /\ WF_vars(AI_Grab)
    /\ WF_vars(AI_Brightness)
    /\ WF_vars(AI_Detect)
    /\ WF_vars(AI_Face)
    /\ WF_vars(AI_Publish)
    /\ WF_vars(Verify_Fail)
    /\ WF_vars(Reap)
    /\ WF_vars(Tick)
    /\ SF_vars(Rebase)

\* ================================================= the threads and their locks
\* The threads of scripts/camera_client.py at the grain of their `with` blocks:
\* each statement that takes a lock waits until the lock is free
\* (threading.Lock is not reentrant), each block's end releases it.
LockFrame ==
    UNCHANGED <<uplinkVars, pipeVars, stageVars, runnerVars, attVars, fanVars>>

Acquire(t, l, to) ==
    /\ lock_owner[l] = "none"
    /\ lock_owner' = [lock_owner EXCEPT ![l] = t]
    /\ lpc' = [lpc EXCEPT ![t] = to]
    /\ LockFrame

Release(t, l, to) ==
    /\ lock_owner[l] = t
    /\ lock_owner' = [lock_owner EXCEPT ![l] = "none"]
    /\ lpc' = [lpc EXCEPT ![t] = to]
    /\ LockFrame

Goto(t, to) ==
    /\ lpc' = [lpc EXCEPT ![t] = to]
    /\ UNCHANGED lock_owner
    /\ LockFrame

\* --- start_camera
\* cam = ThreadedCamera(CAMERA_INDEX).start(): __init__ reads the device once,
\* start() starts update; then the ai_worker thread is started.
Lk_Render_Start ==
    /\ lpc["render"] = "construct"
    /\ lpc' = [lpc EXCEPT !["render"] = "read", !["capture"] = "test",
                          !["ai"] = "top"]
    /\ UNCHANGED lock_owner
    /\ LockFrame

\* ret, frame = cam.read(): `with self.lock`, the copy of self.frame inside.
Lk_Render_CamLock ==
    /\ lpc["render"] = "read"
    /\ Acquire("render", "cam_lock", "in_cam_lock")
Lk_Render_CamUnlock ==
    /\ lpc["render"] = "in_cam_lock"
    /\ Release("render", "cam_lock", "got")
\* if not ret or frame is None: time.sleep(0.01); continue
Lk_Render_NoFrame ==
    /\ lpc["render"] = "got"
    /\ Goto("render", "sleep")
Lk_Render_Slept ==
    /\ lpc["render"] = "sleep"
    /\ Goto("render", "read")
\* frame = cv2.flip(frame, 1)
Lk_Render_Flip ==
    /\ lpc["render"] = "got"
    /\ Goto("render", "share")
\* with state_lock: latest_frame = frame; faces_to_draw = list(detected_faces)
Lk_Render_StateLock ==
    /\ lpc["render"] = "share"
    /\ Acquire("render", "state_lock", "in_state_lock")
\* A render loop that goes on to the faces with state_lock still taken.
Lk_Render_StateKeepsLock ==
    /\ lpc["render"] = "in_state_lock"
    /\ Goto("render", "draw")
Lk_Render_StateUnlock ==
    /\ lpc["render"] = "in_state_lock"
    /\ Release("render", "state_lock", "draw")
\* for face in faces_to_draw: with results_lock: the lookup of the face's key
Lk_Render_ResultsLock ==
    /\ lpc["render"] = "draw"
    /\ Acquire("render", "results_lock", "in_results_lock")
Lk_Render_ResultsUnlock ==
    /\ lpc["render"] = "in_results_lock"
    /\ Release("render", "results_lock", "draw")
\* after the last face: cv2.imencode(".jpg", vis_frame, ...)
Lk_Render_Drawn ==
    /\ lpc["render"] = "draw"
    /\ Goto("render", "encode")
\* ws_client.send_frame(buffer.tobytes())
Lk_Render_Encoded ==
    /\ lpc["render"] = "encode"
    /\ Goto("render", "send")
\* cv2.imshow, cv2.waitKey(1)
Lk_Render_Sent ==
    /\ lpc["render"] = "send"
    /\ Goto("render", "show")
Lk_Render_Again ==
    /\ lpc["render"] = "show"
    /\ Goto("render", "read")
\* 'q': running = False; cam.stop(); break
Lk_Render_Quit ==
    /\ lpc["render"] = "show"
    /\ Goto("render", "done")

\* --- ThreadedCamera.update
\* while not self.stopped: ... ret, frame = self.capture.read()
Lk_Capture_Test ==
    /\ lpc["render"] # "done"
    /\ lpc["capture"] = "test"
    /\ Goto("capture", "device_read")
\* stopped is set, or the device is closed: the loop ends
Lk_Capture_End ==
    /\ lpc["capture"] = "test"
    /\ Goto("capture", "done")
\* if ret: with self.lock: self.ret = ret; self.frame = frame
Lk_Capture_Good ==
    /\ lpc["capture"] = "device_read"
    /\ Goto("capture", "store")
Lk_Capture_CamLock ==
    /\ lpc["capture"] = "store"
    /\ Acquire("capture", "cam_lock", "in_cam_lock")
Lk_Capture_CamUnlock ==
    /\ lpc["capture"] = "in_cam_lock"
    /\ Release("capture", "cam_lock", "test")
\* else: self.stop()
Lk_Capture_Bad ==
    /\ lpc["capture"] = "device_read"
    /\ Goto("capture", "done")

\* --- ai_worker
\* while running
Lk_AI_Exit ==
    /\ lpc["render"] = "done"
    /\ lpc["ai"] = "top"
    /\ Goto("ai", "exit")
\* with state_lock: img_copy = latest_frame.copy(), or None
Lk_AI_CopyLock ==
    /\ lpc["render"] # "done"
    /\ lpc["ai"] = "top"
    /\ Acquire("ai", "state_lock", "in_state_lock")
\* A worker that leaves the copy block with state_lock still taken.
Lk_AI_CopyKeepsLock ==
    /\ lpc["ai"] = "in_state_lock"
    /\ Goto("ai", "copied")
Lk_AI_CopyUnlock ==
    /\ lpc["ai"] = "in_state_lock"
    /\ Release("ai", "state_lock", "copied")
\* if img_copy is None: time.sleep(0.01); continue
Lk_AI_NoFrame ==
    /\ lpc["ai"] = "copied"
    /\ Goto("ai", "sleep")
Lk_AI_Slept ==
    /\ lpc["ai"] = "sleep"
    /\ Goto("ai", "top")
\* brightness < MIN_BRIGHTNESS: with state_lock: detected_faces = []; then
\* time.sleep(0.1); continue
Lk_AI_DarkLock ==
    /\ lpc["ai"] = "copied"
    /\ Acquire("ai", "state_lock", "in_state_lock_dark")
Lk_AI_DarkUnlock ==
    /\ lpc["ai"] = "in_state_lock_dark"
    /\ Release("ai", "state_lock", "sleep")
\* faces = app.get(img_rgb)
Lk_AI_Bright ==
    /\ lpc["ai"] = "copied"
    /\ Goto("ai", "detect")
Lk_AI_Detected ==
    /\ lpc["ai"] = "detect"
    /\ Goto("ai", "faces")
\* for face in faces: a face that passed the quality gates: with results_lock
Lk_AI_ResultsLock ==
    /\ lpc["ai"] = "faces"
    /\ Acquire("ai", "results_lock", "in_results_lock")
\* inside the block, when both gates let the face through:
\* threading.Thread(target=verify_face_worker, ...).start()
Lk_AI_StartVerify ==
    \E v \in Verifiers :
        /\ lpc["ai"] = "in_results_lock"
        /\ lpc[v] = "unstarted"
        /\ lpc' = [lpc EXCEPT ![v] = "post"]
        /\ UNCHANGED lock_owner
        /\ LockFrame
Lk_AI_ResultsUnlock ==
    /\ lpc["ai"] = "in_results_lock"
    /\ Release("ai", "results_lock", "faces")
\* after the loop: with state_lock: detected_faces = valid_faces
Lk_AI_PublishLock ==
    /\ lpc["ai"] = "faces"
    /\ Acquire("ai", "state_lock", "in_state_lock_pub")
Lk_AI_PublishUnlock ==
    /\ lpc["ai"] = "in_state_lock_pub"
    /\ Release("ai", "state_lock", "top")

\* --- verify_face_worker
\* response = requests.post(...): status 200
Lk_Verify_Answered ==
    \E v \in Verifiers :
        /\ lpc[v] = "post"
        /\ Goto(v, "store")
\* any other status or an exception: the thread returns
Lk_Verify_Failed ==
    \E v \in Verifiers :
        /\ lpc[v] = "post"
        /\ Goto(v, "unstarted")
\* with results_lock: recognition_results[face_key] = {...}
Lk_Verify_ResultsLock ==
    \E v \in Verifiers :
        /\ lpc[v] = "store"
        /\ Acquire(v, "results_lock", "in_results_lock")
Lk_Verify_ResultsUnlock ==
    \E v \in Verifiers :
        /\ lpc[v] = "in_results_lock"
        /\ Release(v, "results_lock", "unstarted")

NextLocks ==
    \/ Lk_Render_Start
    \/ Lk_Render_CamLock
    \/ Lk_Render_CamUnlock
    \/ Lk_Render_NoFrame
    \/ Lk_Render_Slept
    \/ Lk_Render_Flip
    \/ Lk_Render_StateLock
    \/ Lk_Render_StateUnlock
    \/ Lk_Render_ResultsLock
    \/ Lk_Render_ResultsUnlock
    \/ Lk_Render_Drawn
    \/ Lk_Render_Encoded
    \/ Lk_Render_Sent
    \/ Lk_Render_Again
    \/ Lk_Render_Quit
    \/ Lk_Capture_Test
    \/ Lk_Capture_End
    \/ Lk_Capture_Good
    \/ Lk_Capture_CamLock
    \/ Lk_Capture_CamUnlock
    \/ Lk_Capture_Bad
    \/ Lk_AI_Exit
    \/ Lk_AI_CopyLock
    \/ Lk_AI_CopyUnlock
    \/ Lk_AI_NoFrame
    \/ Lk_AI_Slept
    \/ Lk_AI_DarkLock
    \/ Lk_AI_DarkUnlock
    \/ Lk_AI_Bright
    \/ Lk_AI_Detected
    \/ Lk_AI_ResultsLock
    \/ Lk_AI_StartVerify
    \/ Lk_AI_ResultsUnlock
    \/ Lk_AI_PublishLock
    \/ Lk_AI_PublishUnlock
    \/ Lk_Verify_Answered
    \/ Lk_Verify_Failed
    \/ Lk_Verify_ResultsLock
    \/ Lk_Verify_ResultsUnlock

SpecLocks == Init /\ [][NextLocks]_vars

\* ================================================= the local script runner
\* services/script_runner.py: LocalScriptRunner.  Every method body that runs
\* under self._lock is one step; stop_script leaves the lock between its
\* request and its final log line, and _stream_output runs in a thread of its
\* own per started process.
RunnerFrame ==
    UNCHANGED <<uplinkVars, pipeVars, stageVars, lockVars, attVars, fanVars>>

\* state.logs is kept as the number of lines it holds (the log_size that
\* _serialize_script reports).  state.logs.append(line): a
\* deque(maxlen=MAX_LOG_LINES) drops its oldest line when full.
LogAppend(logs) ==
    IF logs < MAX_LOG_LINES THEN logs + 1 ELSE MAX_LOG_LINES

\* if state.status in {"running", "stopping"}
BusyRunningOnly(status) == status = "running"

Busy(status) == status \in {"running", "stopping"}

\* What start_script(id, payload) ends with, in the order of its tests:
\* _get_spec, the status test, _build_command (the script file, then the name
\* for register_face), subprocess.Popen.
StartOutcome(id, name, exists, spawns) ==
    IF id \notin Scripts THEN "KeyError"
    ELSE IF Busy(states[id].status) THEN "RuntimeError"
    ELSE IF ~exists THEN "RuntimeError"
    ELSE IF id = "register_face" /\ name = "" THEN "ValueError"
    ELSE IF ~spawns THEN "RuntimeError"
    ELSE "none"

\* The process subprocess.Popen has just started, with its _stream_output
\* thread: alive, no signal sent, stdout open, no line read yet.
NewProcess(id) ==
    [script |-> id, alive |-> TRUE, code |-> NoExitCode, signalled |-> FALSE,
     stream |-> "lines", lines |-> 0, stops |-> 0]

\* A process whose _stream_output thread has returned: nothing reads its
\* exit code, its output or the requests made for it any more.
EndedProcess(id) ==
    [script |-> id, alive |-> FALSE, code |-> NoExitCode, signalled |-> FALSE,
     stream |-> "ended", lines |-> 0, stops |-> 0]

CallEnds(op, id, raised) ==
    last_call' = [n |-> 1 - last_call.n, op |-> op, id |-> id,
                  raised |-> raised]

\* --- start_script
start_script ==
    \E id \in Scripts \cup {UnknownId}, name \in Names,
       exists \in BOOLEAN, spawns \in BOOLEAN :
        LET raised == StartOutcome(id, name, exists, spawns)
        IN /\ IF raised = "none"
                THEN /\ Len(procs) < MaxRuns
                     /\ procs' = Append(procs, NewProcess(id))
                     /\ states' = [states EXCEPT ![id] =
                           [status |-> "running",
                            started_at |-> rnow,
                            finished_at |-> NoTime,
                            exit_code |-> NoExitCode,
                            stop_requested |-> FALSE,
                            process |-> Len(procs) + 1,
                            logs |-> LogAppend(LogAppend(0))]]
                     /\ rnow' = rnow + 1
                ELSE UNCHANGED <<procs, states, rnow>>
           /\ CallEnds("start", id, raised)
           /\ UNCHANGED callers
           /\ RunnerFrame

\* What stop_script(id) ends its first block with.
StopOutcome(id) ==
    IF id \notin Scripts THEN "KeyError"
    ELSE IF ~Busy(states[id].status) \/ states[id].process = NoProcess
           THEN "RuntimeError"
    ELSE "none"

\* --- stop_script, the first `with self._lock` block: the request
stop_script ==
    \E c \in Callers, id \in Scripts \cup {UnknownId} :
        LET raised == StopOutcome(id)
        IN /\ callers[c] = None
           /\ IF raised = "none"
                THEN /\ states' = [states EXCEPT
                           ![id].stop_requested = TRUE,
                           ![id].status = "stopping",
                           ![id].logs = LogAppend(@)]
                     /\ callers' = [callers EXCEPT ![c] =
                           [id |-> id, process |-> states[id].process,
                            pc |-> "terminate"]]
                     /\ procs[states[id].process].stops < MaxStops
                     /\ procs' = [procs EXCEPT
                           ![states[id].process].stops = @ + 1]
                     /\ UNCHANGED last_call
                ELSE /\ CallEnds("stop", id, raised)
                     /\ UNCHANGED <<states, callers, procs>>
           /\ UNCHANGED rnow
           /\ RunnerFrame

\* process.terminate(): the signal goes to a process that still runs.
stop_terminate ==
    \E c \in Callers :
        /\ callers[c] # None
        /\ callers[c].pc = "terminate"
        /\ procs' = [procs EXCEPT ![callers[c].process].signalled =
                        procs[callers[c].process].alive]
        /\ callers' = [callers EXCEPT ![c].pc = "wait"]
        /\ UNCHANGED <<states, last_call, rnow>>
        /\ RunnerFrame

\* process.wait(timeout=5) returns: the process has exited.
stop_waited ==
    \E c \in Callers :
        /\ callers[c] # None
        /\ callers[c].pc = "wait"
        /\ ~procs[callers[c].process].alive
        /\ callers' = [callers EXCEPT ![c].pc = "finish"]
        /\ UNCHANGED <<states, procs, last_call, rnow>>
        /\ RunnerFrame

\* subprocess.TimeoutExpired: process.kill()
stop_kill ==
    \E c \in Callers :
        /\ callers[c] # None
        /\ callers[c].pc = "wait"
        /\ procs[callers[c].process].alive
        /\ procs' = [procs EXCEPT ![callers[c].process].alive = FALSE,
                                  ![callers[c].process].code = KILLED]
        /\ callers' = [callers EXCEPT ![c].pc = "finish"]
        /\ UNCHANGED <<states, last_call, rnow>>
        /\ RunnerFrame

\* finally: with self._lock: state.logs.append("Stop signal sent."); return
stop_finish ==
    \E c \in Callers :
        /\ callers[c] # None
        /\ callers[c].pc = "finish"
        /\ states' = [states EXCEPT ![callers[c].id].logs = LogAppend(@)]
        /\ CallEnds("stop", callers[c].id, "none")
        /\ callers' = [callers EXCEPT ![c] = None]
        /\ UNCHANGED <<procs, rnow>>
        /\ RunnerFrame

\* --- the started process
\* It ends on its own with exit code 0 or 1, or, once signalled, by the signal.
process_exit ==
    \E i \in DOMAIN procs, code \in {0, 1, TERMINATED} :
        /\ procs[i].alive
        /\ code = TERMINATED => procs[i].signalled
        /\ procs' = [procs EXCEPT ![i].alive = FALSE, ![i].code = code]
        /\ UNCHANGED <<states, callers, last_call, rnow>>
        /\ RunnerFrame

\* --- _stream_output
\* for line in process.stdout: self._append_log(script_id, message)
stream_line ==
    \E i \in DOMAIN procs :
        /\ procs[i].stream = "lines"
        /\ procs[i].lines < MaxLines
        /\ states' = [states EXCEPT ![procs[i].script].logs = LogAppend(@)]
        /\ procs' = [procs EXCEPT ![i].lines = @ + 1]
        /\ UNCHANGED <<callers, last_call, rnow>>
        /\ RunnerFrame

\* The loop ends (the process has closed its stdout, at its exit at the
\* latest): process.stdout.close(), then process.wait().
stream_eof ==
    \E i \in DOMAIN procs :
        /\ procs[i].stream = "lines"
        /\ procs' = [procs EXCEPT ![i].stream = "wait"]
        /\ UNCHANGED <<states, callers, last_call, rnow>>
        /\ RunnerFrame

\* A terminal status taken from the return code alone.
TerminalStatusByCode(stop_requested, return_code) ==
    IF return_code < 0 THEN "stopped"
    ELSE IF return_code = 0 THEN "completed"
    ELSE "failed"

\* if state.stop_requested: "stopped"; elif return_code == 0: "completed";
\* else: "failed"
TerminalStatus(stop_requested, return_code) ==
    IF stop_requested THEN "stopped"
    ELSE IF return_code = 0 THEN "completed"
    ELSE "failed"

\* A final block that leaves the process handle in the state.
stream_finishKeepsHandle ==
    \E i \in DOMAIN procs :
        LET id == procs[i].script
        IN /\ procs[i].stream = "wait"
           /\ ~procs[i].alive
           /\ states' = [states EXCEPT ![id] =
                 [@ EXCEPT
                    !.exit_code = procs[i].code,
                    !.finished_at = rnow,
                    !.status = TerminalStatus(states[id].stop_requested,
                                              procs[i].code),
                    !.stop_requested = FALSE,
                    !.logs = LogAppend(states[id].logs)]]
           /\ procs' = [procs EXCEPT ![i] = EndedProcess(id)]
           /\ rnow' = rnow + 1
           /\ UNCHANGED <<callers, last_call>>
           /\ RunnerFrame

\* return_code = process.wait() has returned; the block under self._lock.
stream_finish ==
    \E i \in DOMAIN procs :
        LET id == procs[i].script
        IN /\ procs[i].stream = "wait"
           /\ ~procs[i].alive
           /\ states' = [states EXCEPT ![id] =
                 [@ EXCEPT
                    !.exit_code = procs[i].code,
                    !.finished_at = rnow,
                    !.status = TerminalStatus(states[id].stop_requested,
                                              procs[i].code),
                    !.process = NoProcess,
                    !.stop_requested = FALSE,
                    !.logs = LogAppend(states[id].logs)]]
           /\ procs' = [procs EXCEPT ![i] = EndedProcess(id)]
           /\ rnow' = rnow + 1
           /\ UNCHANGED <<callers, last_call>>
           /\ RunnerFrame

NextRunner ==
    \/ start_script
    \/ stop_script
    \/ stop_terminate
    \/ stop_waited
    \/ stop_kill
    \/ stop_finish
    \/ process_exit
    \/ stream_line
    \/ stream_eof
    \/ stream_finish

SpecRunner == Init /\ [][NextRunner]_vars

\* The daemon thread of _stream_output is scheduled: it reads what the pipe
\* holds, sees the end of the pipe, and runs its final block.
FairRunner ==
    /\ SpecRunner
    /\ WF_vars(stream_line)
    /\ WF_vars(stream_eof)
    /\ WF_vars(stream_finish)

\* ------------------------------------------------ the attendance service
\* src/services/attendance.py, one AttendanceService and one database session
\* per request.  Every await of mark_attendance is a step of its own, so the
\* calls of different requests interleave at their awaits.
AttFrame ==
    UNCHANGED <<uplinkVars, pipeVars, stageVars, lockVars, runnerVars, fanVars>>

\* cache_key = f"attendance:{person_id}:{today}"
CacheKey(person_id, today) == [person_id |-> person_id, date |-> today]

\* A cache read that fails counts as "the key is held".
IsRecentlyMarkedFailClosed(ok, key) == IF ok THEN key \in cache_keys ELSE TRUE

\* _is_recently_marked: bool(await self.cache.get(key)), False when the read
\* raises.
IsRecentlyMarked(ok, key) == IF ok THEN key \in cache_keys ELSE FALSE

\* _mark_recently_marked: setex(key, 43200, "marked"), nothing when the write
\* raises.
MarkRecentlyMarked(ok, key) == IF ok THEN cache_keys \cup {key} ELSE cache_keys

\* UniqueConstraint("person_id", "date"): the rows a new row collides with.
Collisions(person_id, today) ==
    {i \in DOMAIN attendance :
        attendance[i] = [person_id |-> person_id, date |-> today]}

\* --- mark_attendance(person_id) is called: today and the cache key
mark_begin ==
    \E r \in Requests, p \in Persons :
        /\ requests[r].pc = "idle"
        /\ requests' = [requests EXCEPT ![r] =
              [@ EXCEPT !.pc = "check", !.person_id = p, !.today = date_today]]
        /\ UNCHANGED <<attendance, cache_keys, date_today>>
        /\ AttFrame

\* --- if await self._is_recently_marked(cache_key): return None, False;
\* otherwise Attendance(...) and self.db.add(new_record)
mark_check ==
    \E r \in Requests, ok \in BOOLEAN :
        LET q == requests[r]
            hit == IsRecentlyMarked(ok, CacheKey(q.person_id, q.today))
        IN /\ q.pc = "check"
           /\ requests' = [requests EXCEPT ![r] =
                 IF hit
                   THEN [@ EXCEPT !.pc = "returned", !.record = NoRecord,
                                  !.created = FALSE, !.read_failed = ~ok]
                   ELSE [@ EXCEPT !.pc = "commit", !.session = "pending",
                                  !.read_failed = ~ok]]
           /\ UNCHANGED <<attendance, cache_keys, date_today>>
           /\ AttFrame

\* A commit that inserts the row whatever the table holds.
mark_commitNoConstraint ==
    \E r \in Requests :
        LET q == requests[r]
        IN /\ q.pc = "commit"
           /\ attendance' = Append(attendance,
                                   [person_id |-> q.person_id, date |-> q.today])
           /\ requests' = [requests EXCEPT ![r] =
                 [@ EXCEPT !.pc = "mark", !.session = "clean",
                           !.record = Len(attendance) + 1]]
           /\ UNCHANGED <<cache_keys, date_today>>
           /\ AttFrame

\* --- await self.db.commit() and await self.db.refresh(new_record): the row
\* is inserted, or the unique constraint raises IntegrityError and leaves the
\* session's transaction failed
mark_commit ==
    \E r \in Requests :
        LET q == requests[r]
        IN /\ q.pc = "commit"
           /\ IF Collisions(q.person_id, q.today) = {}
                THEN /\ attendance' = Append(attendance,
                           [person_id |-> q.person_id, date |-> q.today])
                     /\ requests' = [requests EXCEPT ![r] =
                           [@ EXCEPT !.pc = "mark", !.session = "clean",
                                     !.record = Len(attendance) + 1]]
                ELSE /\ requests' = [requests EXCEPT ![r] =
                           [@ EXCEPT !.pc = "rollback", !.session = "failed"]]
                     /\ UNCHANGED attendance
           /\ UNCHANGED <<cache_keys, date_today>>
           /\ AttFrame

\* --- await self._mark_recently_marked(cache_key); return new_record, True
mark_created ==
    \E r \in Requests, ok \in BOOLEAN :
        LET q == requests[r]
        IN /\ q.pc = "mark"
           /\ cache_keys' = MarkRecentlyMarked(ok, CacheKey(q.person_id, q.today))
           /\ requests' = [requests EXCEPT ![r] =
                 [@ EXCEPT !.pc = "returned", !.created = TRUE,
                           !.write_failed = ~ok]]
           /\ UNCHANGED <<attendance, date_today>>
           /\ AttFrame

\* --- except IntegrityError: await self.db.rollback()
mark_rollback ==
    \E r \in Requests :
        /\ requests[r].pc = "rollback"
        /\ requests' = [requests EXCEPT ![r] =
              [@ EXCEPT !.pc = "mark_lost", !.session = "clean"]]
        /\ UNCHANGED <<attendance, cache_keys, date_today>>
        /\ AttFrame

\* --- await self._mark_recently_marked(cache_key); return None, False
mark_ignored ==
    \E r \in Requests, ok \in BOOLEAN :
        LET q == requests[r]
        IN /\ q.pc = "mark_lost"
           /\ cache_keys' = MarkRecentlyMarked(ok, CacheKey(q.person_id, q.today))
           /\ requests' = [requests EXCEPT ![r] =
                 [@ EXCEPT !.pc = "returned", !.record = NoRecord,
                           !.created = FALSE, !.write_failed = ~ok]]
           /\ UNCHANGED <<attendance, date_today>>
           /\ AttFrame

\* --- the cache drops a key: the 43200 seconds of setex have passed
cache_expire ==
    \E key \in cache_keys :
        /\ cache_keys' = cache_keys \ {key}
        /\ UNCHANGED <<attendance, requests, date_today>>
        /\ AttFrame

\* --- midnight
midnight ==
    /\ date_today < MaxDay
    /\ date_today' = date_today + 1
    /\ UNCHANGED <<attendance, cache_keys, requests>>
    /\ AttFrame

NextAttendance ==
    \/ mark_begin
    \/ mark_check
    \/ mark_commit
    \/ mark_created
    \/ mark_rollback
    \/ mark_ignored
    \/ cache_expire
    \/ midnight

SpecAttendance == Init /\ [][NextAttendance]_vars

\* ------------------------------------------------------ the relay fan-out
\* src/routers/web_stream.py.  The endpoints are coroutines of one event loop:
\* a coroutine runs from one await to the next without interruption, and at an
\* await any other coroutine may run.  A step of broadcast_video therefore
\* goes from the return of one send_bytes to the await inside the next.
FanFrame ==
    UNCHANGED <<uplinkVars, pipeVars, stageVars, lockVars, runnerVars, attVars>>

\* list.remove(websocket)
Remove(list, v) ==
    LET i == CHOOSE k \in DOMAIN list : list[k] = v
    IN SubSeq(list, 1, i - 1) \o SubSeq(list, i + 1, Len(list))

\* --- websocket_endpoint: manager.connect (accept, append), then the loop
\* of receive_text
viewer_connect ==
    \E v \in Viewers :
        /\ viewer[v] = "away"
        /\ viewer' = [viewer EXCEPT ![v] = "connected"]
        /\ active_connections' = Append(active_connections, v)
        /\ UNCHANGED <<video_frame, iter_at, delivered, audience>>
        /\ FanFrame

\* --- the browser closes its socket
viewer_closes ==
    \E v \in Viewers :
        /\ viewer[v] = "connected"
        /\ viewer' = [viewer EXCEPT ![v] = "closed"]
        /\ audience' = audience \ {v}
        /\ UNCHANGED <<active_connections, video_frame, iter_at, delivered>>
        /\ FanFrame

\* --- websocket_endpoint: receive_text raises WebSocketDisconnect,
\* manager.disconnect(websocket)
viewer_disconnect ==
    \E v \in Viewers :
        /\ viewer[v] = "closed"
        /\ viewer' = [viewer EXCEPT ![v] = "gone"]
        /\ active_connections' = Remove(active_connections, v)
        /\ UNCHANGED <<video_frame, iter_at, delivered, audience>>
        /\ FanFrame

\* --- video_input_endpoint: data = await websocket.receive_bytes() returns;
\* manager.broadcast_video(data) starts its for loop
input_receive ==
    /\ iter_at = 0
    /\ video_frame < MaxInput
    /\ video_frame' = video_frame + 1
    /\ iter_at' = 1
    /\ audience' = {v \in Viewers : viewer[v] = "connected"}
    /\ UNCHANGED <<active_connections, viewer, delivered>>
    /\ FanFrame

\* --- broadcast_video: the iterator yields the element at its position and
\* moves on; send_bytes delivers the frame, or raises on a closed socket and
\* the loop continues
broadcast_send ==
    /\ iter_at > 0
    /\ iter_at <= Len(active_connections)
    /\ LET connection == active_connections[iter_at]
       IN delivered' = [delivered EXCEPT ![connection] =
                          IF viewer[connection] = "connected"
                            THEN Append(@, video_frame)
                            ELSE @]
    /\ iter_at' = iter_at + 1
    /\ UNCHANGED <<active_connections, viewer, video_frame, audience>>
    /\ FanFrame

\* --- broadcast_video: the iterator is past the end of the list; back to
\* receive_bytes
broadcast_end ==
    /\ iter_at > Len(active_connections)
    /\ iter_at' = 0
    /\ UNCHANGED <<active_connections, viewer, video_frame, delivered, audience>>
    /\ FanFrame

NextFanout ==
    \/ viewer_connect
    \/ viewer_closes
    \/ viewer_disconnect
    \/ input_receive
    \/ broadcast_send
    \/ broadcast_end

SpecFanout == Init /\ [][NextFanout]_vars

\* ------------------------------------------------- the uplink on its own
NextUplink ==
    \/ SendFrame_Call
    \/ SendFrame_Full
    \/ SendFrame_Discard
    \/ SendFrame_Schedule
    \/ StartLoop
    \/ RunPut
    \/ RunStep
    \/ NetConnectOk
    \/ NetConnectFail
    \/ NetSendOk
    \/ NetSendFail
    \/ NetCloseDone
    \/ SleepTick
    \/ TimerFire
    \/ RelayDown
    \/ RelayBack
    \/ RelayStaysUp

SpecUplink == Init /\ [][NextUplink]_vars

\* ------------------------------------------------- the camera and the render loop
NextCapture ==
    \/ Device_Fail
    \/ Cam_Init
    \/ Cam_Update
    \/ Render_Read
    \/ Render_Share
    \/ Render_Copy
    \/ Render_Draw
    \/ Render_Send
    \/ Render_Key

SpecCapture == Init /\ [][NextCapture]_vars

\* The same threads in a run whose captured frames are numbered.
SpecSource == InitNumbered /\ [][NextCapture]_vars

\* The capture thread and the main thread keep running.
FairCapture ==
    /\ SpecCapture
    /\ WF_vars(Cam_Init)
    /\ WF_vars(Cam_Update)
    /\ WF_vars(Render_Read)
    /\ WF_vars(Render_Share)
    /\ WF_vars(Render_Copy)
    /\ WF_vars(Render_Draw)
    /\ WF_vars(Render_Send)
    /\ WF_vars(Render_Key)

\* ------------------------------------------------- the camera, the render loop,
\* ai_worker and the verification threads
NextStages ==
    \/ NextCapture
    \/ AI_Grab
    \/ AI_Brightness
    \/ AI_Detect
    \/ AI_Face
    \/ AI_Publish
    \/ Verify_Answer
    \/ Root_Open
    \/ Root_Read
    \/ Root_Share
    \/ Root_Draw
    \/ Root_Send
    \/ Root_Key
    \/ Root_AI_Grab
    \/ Root_AI_Detect
    \/ Root_AI_Face
    \/ Root_AI_Publish

SpecStages == InitEither /\ [][NextStages]_vars

\* ------------------------------------------------- the four threads of a run
\* whose device keeps delivering: capture, render, ai_worker and the uplink
\* worker
NextThreads ==
    \/ Cam_Init
    \/ Cam_Update
    \/ Render_Read
    \/ Render_Share
    \/ Render_Copy
    \/ Render_Draw
    \/ Render_Send
    \/ Render_Key
    \/ AI_Grab
    \/ AI_Brightness
    \/ AI_Detect
    \/ AI_Face
    \/ AI_Publish
    \/ StartLoop
    \/ RunStep
    \/ NetConnectOk
    \/ NetConnectFail
    \/ SleepTick
    \/ TimerFire
    \/ RelayBack

SpecThreads == Init /\ [][NextThreads]_vars

\* ------------------------------------------------- the four threads and the
\* verification threads of a run in which the relay is never reachable and
\* every verification call fails, within one instant of the clock: the uplink
\* worker gets as far as its backoff sleep
NextDegraded ==
    \/ Cam_Init
    \/ Cam_Update
    \/ Render_Read
    \/ Render_Share
    \/ Render_Copy
    \/ Render_Draw
    \/ Render_Send
    \/ Render_Key
    \/ AI_Grab
    \/ AI_Brightness
    \/ AI_Detect
    \/ AI_Face
    \/ AI_Publish
    \/ Verify_Fail
    \/ StartLoop
    \/ RunStep
    \/ NetConnectFail

SpecDegraded == Init /\ [][NextDegraded]_vars

Next == NextUplink \/ NextInference \/ NextStages \/ NextDegraded

Spec == Init /\ [][Next]_vars

FairUplink ==
    /\ SpecUplink
    /\ WF_vars(StartLoop)
    /\ WF_vars(RunPut)
    /\ WF_vars(RunStep)
    /\ WF_vars(SendFrame_Full)
    /\ WF_vars(SendFrame_Discard)
    /\ WF_vars(SendFrame_Schedule)
    /\ WF_vars(NetConnectOk)
    /\ WF_vars(NetConnectFail)
    /\ WF_vars(NetSendOk)
    /\ WF_vars(NetSendFail)
    /\ WF_vars(NetCloseDone)
    /\ WF_vars(SleepTick)
    /\ WF_vars(TimerFire)

\* ================================================= claims about the uplink
Range(s) == {s[i] : i \in DOMAIN s}
StrictlyIncreasing(s) == \A i, j \in DOMAIN s : i < j => s[i] < s[j]
PendingPuts == {i \in DOMAIN ready : ready[i][1] = "put"}
Disconnected == wpc \in {"start", "connecting", "closing", "backoff"}
Connected == wpc \in {"getting", "sending"}

\* C1: latest-wins: whenever the worker dequeues a frame, that frame is the
\* newest one whose send_frame call had returned before the dequeue (so an older
\* frame handed over before it is never the one transmitted).
C1_LatestWins ==
    \A i \in DOMAIN deqLog : deqLog[i][1] = deqLog[i][2]

\* C2: while the worker is disconnected, connecting or in backoff,
\* at most one frame handed over by send_frame is still held for transmission,
\* counting the queue and the put callbacks the loop has not run yet.
C2_AtMostOneHeld ==
    Disconnected => Len(queue) + Cardinality(PendingPuts) <= 1

\* C3: send_frame never waits: whatever the worker and the queue are doing, a
\* send_frame call that has started can take its next step.
C3_SendFrameNeverBlocks ==
    ppc # "idle" =>
        ENABLED (SendFrame_Full \/ SendFrame_Discard \/ SendFrame_Schedule)

\* C3 witness: send_frame is about to hand its frame over while the queue is
\* full and the worker sleeps in backoff.
C3_Witness ==
    /\ ppc = "schedule"
    /\ Len(queue) = QueueMaxSize
    /\ wpc = "backoff"

\* C4: the worker reconnects for ever.  Every position of the worker is left
\* along the reconnect cycle only (a failed send closes the connection, then the
\* backoff, then a new connect); a backoff ends after exactly BACKOFF seconds
\* with no connection open; a worker that is closing or backing off gets back to
\* connecting; once the relay stays reachable a disconnected worker ends up
\* connected; a connection lost while the worker was idle is replaced by a live
\* one as soon as a frame is handed over; and a frame handed over while the
\* connection is live leads to a transmission.
WorkerEdges ==
    { <<"start", "connecting">>,
      <<"connecting", "getting">>, <<"connecting", "sending">>,
      <<"connecting", "backoff">>,
      <<"getting", "sending">>,
      <<"sending", "getting">>, <<"sending", "closing">>,
      <<"closing", "backoff">>,
      <<"backoff", "connecting">> }
FramePending == queue # <<>> \/ PendingPuts # {} \/ ppc # "idle"
C4_ReconnectsForever ==
    /\ [][wpc' # wpc => <<wpc, wpc'>> \in WorkerEdges]_vars
    /\ [][wpc = "backoff" /\ wpc' # "backoff" => backoffs' = <<BACKOFF, 0>>]_vars
    /\ (wpc = "closing") ~> (wpc = "backoff")
    /\ (wpc = "backoff") ~> (wpc = "connecting")
    /\ (relayStable /\ Disconnected) ~> Connected
    /\ (relayStable /\ Connected /\ ~connAlive /\ FramePending)
          ~> (Connected /\ connAlive)
    /\ \A n \in 0..MaxFrames :
         (relayStable /\ Connected /\ connAlive /\ FramePending /\ Len(sent) = n)
            ~> (Len(sent) > n)

\* C4 witness: after a failed send and a full backoff the worker is connected
\* again and has transmitted a frame over the new connection.
C4_Witness ==
    /\ backoffs = <<BACKOFF, 0>>
    /\ outages >= 1
    /\ Connected /\ connAlive
    /\ Len(attempted) > Len(sent)
    /\ sent # <<>> /\ Last(sent) = Last(attempted)

\* C5: the frames passed to websocket.send, and those transmitted, are
\* subsequences of the frames handed to send_frame: in the same order, none
\* twice, and a frame whose send failed is not sent again.
C5_TransmittedIsSubsequence ==
    /\ StrictlyIncreasing(attempted)
    /\ StrictlyIncreasing(sent)
    /\ Range(attempted) \subseteq Range(handed)
    /\ Range(sent) \subseteq Range(attempted)

\* C5 witness: a frame's send failed, the worker reconnected and a later frame
\* was transmitted.
C5_Witness ==
    /\ Len(attempted) >= 2
    /\ attempted[1] \notin Range(sent)
    /\ sent # <<>>

\* C6: at most one connection is open and at most one send is in flight; a new
\* connection is attempted only with the previous one closed.
C6_OneConnectionOneSend ==
    /\ openConns <= 1
    /\ Cardinality(inflight) <= 1
    /\ (wpc \in {"connecting", "backoff"} => openConns = 0)
    /\ (wpc = "sending" <=> inflight # {})

\* C6 witness: the worker is sending over its second connection while another
\* frame already waits in the queue.
C6_Witness ==
    /\ backoffs # <<>>
    /\ openConns = 1
    /\ Cardinality(inflight) = 1
    /\ queue # <<>>

\* ================================================= claims about the pipeline
\* C7: every observation of the published snapshot has a score of
\* at least MIN_DET_SCORE and a bounding box at least MIN_FACE_WIDTH wide,
\* x1 - x0 taken on the box the detector reported.
C7_SnapshotRawWidth ==
    \A i \in DOMAIN detected_faces :
        /\ detected_faces[i].score >= MIN_DET_SCORE
        /\ detected_faces[i].bbox[3] - detected_faces[i].bbox[1]
              >= MIN_FACE_WIDTH * SubPixel

\* C7, with the width the code measures: every observation of the published snapshot has a score of at
\* least MIN_DET_SCORE and a width of at least MIN_FACE_WIDTH, the width taken
\* between the box's corners truncated to whole pixels.
C7_SnapshotPassesGates ==
    \A i \in DOMAIN detected_faces :
        /\ detected_faces[i].score >= MIN_DET_SCORE
        /\ Width(detected_faces[i]) >= MIN_FACE_WIDTH

\* C7 witness: a pass over a frame with a blurred face, a far face and a good
\* one has published the good one alone.
C7_Witness ==
    detected_faces = <<FaceJane2>>

\* C8: two dispatches for one key, the first of which succeeded,
\* are at least CACHE_TTL apart, whatever the latency of the first answer.
C8_OneDispatchPerTTL ==
    \A i, j \in DOMAIN calls :
        (i < j /\ calls[i].key = calls[j].key /\ calls[i].state = "ok")
            => calls[j].at - calls[i].at >= CACHE_TTL

\* C9: in a pass that starts with the debounce window open, as soon as a face
\* that passed the quality gates was found unresolved there is exactly one
\* dispatch in the pass, for the first such face; the later ones launch none.
C9_OneDispatchPerPass ==
    (aipc = "faces" /\ pass.open /\ pass.unresolved # <<>>)
        => pass.dispatched = <<pass.unresolved[1]>>

\* C9 witness: the for loop is over three faces with three different keys, all
\* unresolved, and only the first was dispatched.
C9_Witness ==
    /\ aipc = "faces" /\ idx > Len(faces)
    /\ pass.open
    /\ pass.unresolved = <<1, 2, 3>>
    /\ Cardinality({FaceKey(faces[i]) : i \in 1..3}) = 3
    /\ pass.dispatched = <<1>>

\* C10: any two dispatches, for the same key or not, are at least
\* DEBOUNCE_INTERVAL apart.
C10_GlobalDebounce ==
    \A i, j \in DOMAIN calls :
        i < j => calls[j].at - calls[i].at >= DEBOUNCE_INTERVAL

\* C10 witness: a face deferred by the debounce gate was dispatched in a later
\* pass, as soon as the window was open again.
C10_Witness ==
    /\ Len(calls) = 2
    /\ calls[1].key # calls[2].key
    /\ calls[2].at - calls[1].at = DEBOUNCE_INTERVAL + 1

\* C11: a dispatch for a key is launched only from a state in which the cache
\* has no entry for the key or the entry's expiry lies in the past.
C11_PerKeyGate ==
    [][Len(calls') > Len(calls) =>
          LET k == Last(calls').key IN
            \/ k \notin DOMAIN recognition_results
            \/ now > recognition_results[k].expiry]_vars

\* C11 witness: with the debounce window open, the first face of the pass passed
\* the quality gates, its key has an entry that has not expired, and the gate
\* let no dispatch through.
C11_Witness ==
    /\ aipc = "faces" /\ idx = 2 /\ pass.open
    /\ pass.valid = <<1>> /\ pass.unresolved = <<>> /\ pass.dispatched = <<>>
    /\ FaceKey(faces[1]) \in DOMAIN recognition_results
    /\ now <= recognition_results[FaceKey(faces[1])].expiry

\* C12: the step of a pass that finds its frame darker than MIN_BRIGHTNESS
\* publishes the empty snapshot and returns to the top of the loop; the detector
\* is not run, nothing is dispatched, the debounce clock and the cache stay as
\* they are.
C12_DarkPass ==
    [][(aipc = "bright" /\ aipc' # "bright" /\ img_copy.bright < MIN_BRIGHTNESS) =>
          /\ detected_faces' = <<>>
          /\ aipc' = "top"
          /\ UNCHANGED <<faces, current_time, calls, last_api_call,
                         recognition_results>>]_vars

\* C12 witness: a dark pass has just ended with an empty snapshot, with a
\* verification already made and an entry in the cache.
C12_Witness ==
    /\ lastPass = "dark" /\ aipc = "top"
    /\ detected_faces = <<>>
    /\ calls # <<>>
    /\ recognition_results # <<>>

\* C15: at any time at or after an entry's expiry both readers treat the key as
\* absent: the render loop's lookup gives the pending styling, and the gate
\* check ai_worker is about to make for a face with that key finds the key
\* unresolved.
C15_NeverUsedPastExpiry ==
    \A k \in DOMAIN recognition_results :
        now >= recognition_results[k].expiry =>
            /\ RenderLabel(k, now) = Pending
            /\ (aipc = "faces" /\ idx <= Len(faces) /\ PassesQuality(faces[idx])
                   /\ FaceKey(faces[idx]) = k)
                  => Unresolved(k, current_time)

\* C16: the step by which a verification call fails leaves the cache as it was
\* and moves no other thread: ai_worker, the debounce clock, the published
\* snapshot, the shared frame and the uplink stay as they are.
C16_FailureWritesNothing ==
    [][(\E i \in DOMAIN calls : calls[i].state = "inflight"
                                 /\ calls'[i].state = "failed") =>
          UNCHANGED <<recognition_results, detected_faces, latest_frame,
                      last_api_call, aipc, pass, uplinkVars>>]_vars

\* C16 witness: one call has failed and the cache holds the entry of another.
C16_Witness ==
    /\ \E i \in DOMAIN calls : calls[i].state = "failed"
    /\ \E i \in DOMAIN calls : calls[i].state = "ok"
    /\ recognition_results # <<>>

\* C17: when the detection call throws, ai_worker goes back to the top of its
\* loop with the published snapshot left in place.
C17_SurvivesDetectorError ==
    [][(aipc = "detect" /\ aipc' \notin {"detect", "faces"}) =>
          /\ aipc' = "top"
          /\ UNCHANGED detected_faces]_vars

\* ================================================= claims about the camera,
\* the render loop and the threads
\* C13: once capture.read() has reported a failure, and as long as no frame was
\* ever stored, ThreadedCamera.read() returns ok = False.
C13_ReadFalseAfterFailure ==
    (read_failed \/ (cpc # "init" /\ cam_frame = None)) => ~CamRead[1]

\* C14: a device failure shuts the pipeline down: once capture.read() has
\* reported a failure, the capture thread ends and the render loop ends.
C14_FailureStopsPipeline ==
    read_failed ~> (cpc = "done" /\ rpc = "done")

\* The list a complete pass publishes for each frame the camera can deliver,
\* and the empty list.
CompleteLists ==
    {<<>>} \cup {SelectSeq(scene.faces, PassesQuality) : scene \in Scenes}

\* C18: every snapshot the render loop holds is the complete list of one pass
\* (or the empty list), and the snapshot it takes is the list published at that
\* moment, never the list a pass is still building.
C18_AtomicSnapshot ==
    /\ [](faces_to_draw \in CompleteLists)
    /\ [][(rpc = "share" /\ rpc' = "copy") => faces_to_draw' = detected_faces]_vars

\* C18 witness: the render loop has just taken the snapshot published by the
\* previous pass while ai_worker is in the middle of building another list.
C18_Witness ==
    /\ rpc = "copy"
    /\ faces_to_draw = <<FaceJane2>>
    /\ aipc = "faces"
    /\ valid_faces \notin CompleteLists

\* C19: in either client, no frame ai_worker can read carries overlay pixels:
\* not the shared latest_frame, not ai_worker's copy, not the frame read() returned, not the
\* camera's own frame; the drawing step changes vis_frame alone, and the
\* capture thread storing a new frame changes no frame handed out before.
C19_FrameIsolation ==
    /\ [](/\ (latest_frame # None => ~HasOverlay(latest_frame))
          /\ (img_copy # None => ~HasOverlay(img_copy))
          /\ (frame # None => ~HasOverlay(frame))
          /\ (cam_frame # None => ~HasOverlay(cam_frame)))
    /\ [][(rpc = "draw" /\ rpc' = "send") =>
            UNCHANGED <<latest_frame, img_copy, frame, cam_frame>>]_vars
    /\ [][cam_frame' # cam_frame =>
            UNCHANGED <<latest_frame, img_copy, frame, vis_frame>>]_vars

\* C19 witness: the render loop has drawn a recognised face's label into
\* vis_frame while ai_worker is working on its copy of the very frame vis_frame
\* was copied from, and that frame is still the shared one.
C19_Witness ==
    /\ rpc = "send"
    /\ HasOverlay(vis_frame)
    /\ \E i \in DOMAIN vis_frame.overlay.labels :
          vis_frame.overlay.labels[i].name = "Jane"
    /\ buf.latest = buf.frame /\ buf.vis # buf.frame
    /\ aipc = "detect" /\ img_copy = latest_frame

\* C21: a read() that returns a frame returns the frame the capture thread
\* stored last, so the numbers of the frames returned never go back and never
\* lag behind a frame stored before the call; and read() can always be taken,
\* whatever the device and the capture thread are doing.
C21_ReadReturnsLatest ==
    /\ [](frame_n <= cam_n /\ cam_n <= serial - 1)
    /\ []((entry = "scripts" /\ rpc = "read") => ENABLED Render_Read)
    /\ [][(rpc = "read" /\ rpc' = "share") =>
            (frame_n' = serial - 1 /\ frame_n' >= frame_n)]_vars

\* C21 witness: the capture thread stored three frames or more before the
\* render loop's first read, which returned the last of them; the device has
\* nothing more to deliver.
C21_Witness ==
    /\ rpc = "share"
    /\ frame_n >= 3
    /\ frame_n = cam_n
    /\ ~DeviceHasFrame

\* Every face the detector can report.
AllFaces == UNION {Range(scene.faces) : scene \in Scenes}

\* C22: the key of the box (100, 100, 220, 260) is (3, 3); a verification that
\* ends with a green entry leaves, under the key ai_worker dispatched it for,
\* the name of the person it was for and an expiry CACHE_TTL after its end;
\* while an entry is unexpired the render loop draws its name and color for
\* every face that ai_worker files under that key; and no dispatch for a key
\* is launched while its entry is unexpired.
C22_KeyAgreement ==
    /\ [](/\ FaceKey([bbox |-> <<100 * SubPixel, 100 * SubPixel,
                                  220 * SubPixel, 260 * SubPixel>>]) = <<3, 3>>
          /\ \A k \in DOMAIN recognition_results :
                now < recognition_results[k].expiry =>
                  \A f \in AllFaces :
                     FaceKey(f) = k =>
                       RenderLabel(RenderKey(f), now) =
                          [name |-> recognition_results[k].name,
                           color |-> recognition_results[k].color])
    /\ [][\A i \in DOMAIN calls :
            (calls[i].state = "inflight" /\ calls'[i].state = "ok"
               /\ recognition_results'[calls[i].key].color = "green") =>
                  recognition_results'[calls[i].key] =
                     [name |-> calls[i].who, color |-> "green",
                      expiry |-> now + CACHE_TTL]]_vars
    /\ [][Len(calls') > Len(calls) =>
            ~(/\ Last(calls').key \in DOMAIN recognition_results
              /\ now < recognition_results[Last(calls').key].expiry)]_vars

\* C22 witness: Jane's face, seen in (3, 3), was dispatched once and answered
\* with a green entry; one time unit before the entry's expiry the face is in
\* the published snapshot, the render loop's lookup gives "Jane" in green, and
\* that dispatch is still the only one for the key.
C22_Witness ==
    /\ <<3, 3>> \in DOMAIN recognition_results
    /\ recognition_results[<<3, 3>>].color = "green"
    /\ now = recognition_results[<<3, 3>>].expiry - 1
    /\ \E i \in DOMAIN detected_faces :
          /\ FaceKey(detected_faces[i]) = <<3, 3>>
          /\ RenderLabel(RenderKey(detected_faces[i]), now) =
                [name |-> "Jane", color |-> "green"]
    /\ Cardinality({i \in DOMAIN calls : calls[i].key = <<3, 3>>}) = 1

\* The next step of the render loop, of ai_worker.
RenderStep ==
    \/ Render_Read \/ Render_Share \/ Render_Copy
    \/ Render_Draw \/ Render_Send \/ Render_Key
AIStep == AI_Grab \/ AI_Brightness \/ AI_Detect \/ AI_Face \/ AI_Publish

\* C23: with the relay unreachable and every verification call failing, the
\* render loop, the capture thread and ai_worker can each take their next step
\* in every state they have not ended in (the render loop ends on 'q' only, the
\* other two on the stop that follows it), and no step of the uplink worker
\* and no failed verification changes where one of them stands, the stop
\* flags, the shared frame, the snapshot or the cache.
C23_IndependentDegradation ==
    /\ [](/\ (rpc \notin {"init", "done"}) => ENABLED RenderStep
          /\ (cpc = "loop") => ENABLED Cam_Update
          /\ (aipc # "exit") => ENABLED AIStep)
    /\ [][(\/ uplinkVars' # uplinkVars
           \/ \E i \in DOMAIN calls :
                 calls[i].state = "inflight" /\ calls'[i].state = "failed")
            => UNCHANGED <<cpc, rpc, aipc, running, cam_stopped, cam_open,
                           latest_frame, detected_faces, recognition_results>>]_vars

\* C23 witness: the connection attempt has failed and the uplink worker sleeps
\* in its backoff, the one verification call has failed, and a pass that began
\* after that dispatch is in its for loop while the render loop is drawing a
\* frame.
C23_Witness ==
    /\ wpc = "backoff" /\ awaiting /\ sleepLeft = BACKOFF /\ openConns = 0
    /\ Len(calls) = 1 /\ calls[1].state = "failed"
    /\ aipc = "faces" /\ idx = 2 /\ ~pass.open
    /\ rpc = "draw"
    /\ cpc = "loop"

\* The face filed under key k was found unresolved in the running pass and the
\* debounce gate let no dispatch through for it.
Deferred(k) ==
    /\ aipc = "faces"
    /\ \E j \in Range(pass.unresolved) \ Range(pass.dispatched) :
          FaceKey(faces[j]) = k

\* A verification thread started for key k is in the list of threads.
Called(k) == \E i \in DOMAIN calls : calls[i].key = k

\* C24: when from some moment on every frame shows the same three faces, a
\* face the debounce gate deferred has a verification thread started for its
\* key later on.
C24_DeferredEventuallyDispatched ==
    (<>[](latest_frame = SceneThree)) =>
        \A k \in {FaceKey(f) : f \in Range(SceneThree.faces)} :
            Deferred(k) ~> Called(k)

\* A verification thread for key k has ended in a failure.
FailedFor(k) ==
    \E i \in DOMAIN calls : calls[i].key = k /\ calls[i].state = "failed"

\* A verification thread for key k is running.
InFlightFor(k) ==
    \E i \in DOMAIN calls : calls[i].key = k /\ calls[i].state = "inflight"

\* C25: in front of a scene that keeps showing the same faces, a verification
\* call for a face's key that has failed is followed by a new verification
\* thread for that key.
C25_RetryAfterFailure ==
    \A k \in {FaceKey(f) : f \in Range(SceneThree.faces)} :
        FailedFor(k) ~> InFlightFor(k)

\* C26 as stated: no answer with a status other than a success has written the
\* cache; red is the colour verify_face_worker gives to such an answer alone.
C26_NonSuccessAbsorbed ==
    \A k \in DOMAIN recognition_results : recognition_results[k].color # "red"

\* C26, with what the code does with such an answer: every answer with HTTP
\* status 200 writes the entry of its key, expiring CACHE_TTL after the
\* write; the entry is green under the person's name for the statuses
\* "success" and "ignored" and red under "Unknown" for any other; and no
\* verification thread is started for a key whose entry, red or green, has
\* not expired at the pass's reading of the clock.
C26_NonSuccessCached ==
    /\ [][\A i \in DOMAIN calls :
            (calls[i].state = "inflight" /\ calls'[i].state = "ok") =>
               /\ calls[i].key \in DOMAIN recognition_results'
               /\ recognition_results'[calls[i].key] \in
                     {[name |-> calls[i].who, color |-> "green",
                       expiry |-> now + CACHE_TTL],
                      [name |-> "Unknown", color |-> "red",
                       expiry |-> now + CACHE_TTL]}]_vars
    /\ [][Len(calls') > Len(calls) =>
            LET k == calls'[Len(calls')].key
            IN \/ k \notin DOMAIN recognition_results
               \/ current_time > recognition_results[k].expiry]_vars

\* C26 witness: the answer "unknown" has left a red entry for key (3,3); a
\* later pass, before the entry's expiry, has gone over the face at that key
\* and over the next face, and has started a thread for the next face only.
C26_Witness ==
    /\ <<3, 3>> \in DOMAIN recognition_results
    /\ recognition_results[<<3, 3>>].name = "Unknown"
    /\ recognition_results[<<3, 3>>].color = "red"
    /\ aipc = "faces" /\ idx = 3
    /\ current_time > calls[1].at
    /\ current_time <= recognition_results[<<3, 3>>].expiry
    /\ Len(calls) = 2
    /\ calls[1].key = <<3, 3>> /\ calls[1].state = "ok"
    /\ calls[2].key = FaceKey(FaceBob) /\ calls[2].at = current_time

\* C27: the step by which a verification call completes with an answer writes
\* the entry of the call's key and no other: the cache's keys are the former
\* ones and that key, the entry written expires CACHE_TTL after the
\* completion whether or not the key had an entry before, and every other
\* key's entry is what it was.
C27_CompletionWritesOneEntry ==
    [][\A i \in DOMAIN calls :
          (calls[i].state = "inflight" /\ calls'[i].state = "ok") =>
             /\ DOMAIN recognition_results' =
                   DOMAIN recognition_results \cup {calls[i].key}
             /\ recognition_results'[calls[i].key].expiry = now + CACHE_TTL
             /\ \A k \in DOMAIN recognition_results \ {calls[i].key} :
                   recognition_results'[k] = recognition_results[k]]_vars

\* C27 witness: two calls for key (3,3) have completed, the second one
\* dispatched after the first; the entry is the one the later completion
\* wrote, and it is the cache's only entry.
C27_Witness ==
    /\ Len(calls) = 2
    /\ calls[1].key = <<3, 3>> /\ calls[2].key = <<3, 3>>
    /\ calls[1].state = "ok" /\ calls[2].state = "ok"
    /\ calls[2].at > calls[1].at
    /\ DOMAIN recognition_results = {<<3, 3>>}
    /\ recognition_results[<<3, 3>>].expiry = now + CACHE_TTL
    /\ now > calls[2].at

\* C28: the cache changes only in the step by which a verification call
\* completes with an answer, and no step takes a key out of it: an expired
\* entry stays where it is, also when its key is dispatched again.
C28_CacheWrittenByCompletionOnly ==
    /\ [][recognition_results' # recognition_results =>
            \E i \in DOMAIN calls :
               calls[i].state = "inflight" /\ calls'[i].state = "ok"]_vars
    /\ [][DOMAIN recognition_results \subseteq DOMAIN recognition_results']_vars

\* C28 witness: the entry of key (3,3) has expired, a later pass has started
\* a second thread for the key, and the expired entry is still in the cache.
C28_Witness ==
    /\ <<3, 3>> \in DOMAIN recognition_results
    /\ Len(calls) = 2
    /\ calls[1].key = <<3, 3>> /\ calls[1].state = "ok"
    /\ calls[2].key = <<3, 3>> /\ calls[2].state = "inflight"
    /\ calls[2].at > recognition_results[<<3, 3>>].expiry
    /\ aipc = "top"

\* C29: the debounce clock changes in exactly the steps that start a
\* verification thread, and in such a step it takes the pass's reading of the
\* clock, which is also the thread's dispatch time; a turn of the face loop
\* that starts no thread leaves the clock, the cache and the threads as they
\* were; and the debounce clock never goes back.
C29_StampIffDispatch ==
    /\ [][(last_api_call' # last_api_call) <=> (Len(calls') > Len(calls))]_vars
    /\ [][Len(calls') > Len(calls) =>
            /\ Len(calls') = Len(calls) + 1
            /\ last_api_call' = current_time
            /\ calls'[Len(calls')].at = last_api_call']_vars
    /\ [][(aipc = "faces" /\ idx' = idx + 1 /\ Len(calls') = Len(calls)) =>
            UNCHANGED <<last_api_call, recognition_results, calls>>]_vars
    /\ [][last_api_call' >= last_api_call]_vars

\* C29 witness: in the second dispatching pass, taken with a later reading of
\* the clock than the first, the first face has been dispatched and has
\* stamped the clock with the pass's reading, older than the clock's present
\* one, and the turn of the next unresolved face has started nothing.
C29_Witness ==
    /\ aipc = "faces" /\ idx = 3
    /\ pass.unresolved = <<1, 2>> /\ pass.dispatched = <<1>>
    /\ Len(calls) = 2
    /\ calls[2].at = current_time /\ calls[1].at < current_time
    /\ last_api_call = current_time
    /\ now > current_time

\* C30: a verification thread is started only in the turn of a face whose
\* score is at least MIN_DET_SCORE and whose width is at least MIN_FACE_WIDTH,
\* for that face's key, the face being among the pass's valid faces; and the
\* snapshot a pass publishes holds every face the pass started a thread for.
C30_DispatchOnlyForPublished ==
    /\ [][Len(calls') > Len(calls) =>
            /\ aipc = "faces" /\ idx \in DOMAIN faces
            /\ faces[idx].score >= MIN_DET_SCORE
            /\ Width(faces[idx]) >= MIN_FACE_WIDTH
            /\ calls'[Len(calls')].key = FaceKey(faces[idx])
            /\ faces[idx] \in Range(valid_faces')]_vars
    /\ [][(aipc = "faces" /\ aipc' = "top") =>
            \A j \in Range(pass.dispatched) :
               /\ faces[j] \in Range(detected_faces')
               /\ \E i \in DOMAIN calls :
                     calls[i].key = FaceKey(faces[j])
                     /\ calls[i].at = current_time]_vars

\* C30 witness: a pass over the frame with a blurred face, a far face and a
\* good one has started one thread, for the good face's key, and has
\* published the good face alone.
C30_Witness ==
    /\ lastPass = "published"
    /\ detected_faces = <<FaceJane2>>
    /\ Len(calls) = 1
    /\ calls[1].key = FaceKey(FaceJane2)
    /\ calls[1].key \notin {FaceKey(FaceBlur), FaceKey(FaceFar)}
    /\ aipc = "top"

\* The statements during which a thread waits for the device, the detector,
\* the network, the encoder or a timer.
BlockingAt ==
    [t \in Threads |->
        CASE t = "render" -> {"construct", "sleep", "encode", "send"}
          [] t = "capture" -> {"device_read"}
          [] t = "ai" -> {"sleep", "detect"}
          [] OTHER -> {"post"}]

HeldBy(t) == {l \in Locks : lock_owner[l] = t}

\* C31: a thread that is inside the detection call, the verification request,
\* a read of the device, the encoding of a frame, the hand-over to the uplink
\* or a sleep holds neither state_lock nor results_lock.
C31_NoLockAcrossBlocking ==
    \A t \in Threads :
        lpc[t] \in BlockingAt[t] =>
            HeldBy(t) \cap {"state_lock", "results_lock"} = {}

\* C31 witness: the encoding, a device read, the detection and a verification
\* request are in progress at once, while the other verification thread is
\* inside its results_lock block.
C31_Witness ==
    /\ lpc["render"] = "encode"
    /\ lpc["capture"] = "device_read"
    /\ lpc["ai"] = "detect"
    /\ lpc["verify1"] = "post"
    /\ lock_owner["results_lock"] = "verify2"

\* The statements inside a `with` block: the thread waits for nothing there.
InsideBlock ==
    {"in_cam_lock", "in_state_lock", "in_state_lock_dark", "in_state_lock_pub",
     "in_results_lock"}

\* Every thread has ended, or no verification thread is running.
AllEnded ==
    /\ lpc["render"] = "done"
    /\ lpc["capture"] = "done"
    /\ lpc["ai"] = "exit"
    /\ \A v \in Verifiers : lpc[v] = "unstarted"

\* C32: no thread holds two of the three locks at once; a thread that holds a
\* lock is inside that lock's block, where it waits for no lock; and as long
\* as a thread is left running, some thread can take its next step.
C32_DeadlockFree ==
    /\ \A t \in Threads : Cardinality(HeldBy(t)) <= 1
    /\ \A t \in Threads : HeldBy(t) # {} => lpc[t] \in InsideBlock
    /\ AllEnded \/ ENABLED NextLocks

\* C32 witness: the three locks are held by three threads, the capture thread
\* inside ThreadedCamera.lock, ai_worker inside state_lock and a verification
\* thread inside results_lock, while the render loop is at the statement
\* that takes state_lock.
C32_Witness ==
    /\ lock_owner["cam_lock"] = "capture"
    /\ lock_owner["state_lock"] = "ai"
    /\ lock_owner["results_lock"] \in Verifiers
    /\ lpc["render"] = "share"

\* The processes of script id that still run, and those whose _stream_output
\* thread has not returned yet.
LiveProcesses(id) ==
    {i \in DOMAIN procs : procs[i].script = id /\ procs[i].alive}
OpenRuns(id) ==
    {i \in DOMAIN procs : procs[i].script = id /\ procs[i].stream # "ended"}

\* C33: for every script a process handle is stored exactly when the status
\* is "running" or "stopping"; the stored handle is the script's one run that
\* has not been closed by its _stream_output thread; and at most one process
\* of the script is alive.
C33_HandleIffRunning ==
    \A id \in Scripts :
        /\ (states[id].process # NoProcess) <=>
              (states[id].status \in {"running", "stopping"})
        /\ OpenRuns(id) = {states[id].process} \ {NoProcess}
        /\ LiveProcesses(id) \subseteq OpenRuns(id)
        /\ Cardinality(LiveProcesses(id)) <= 1

\* C33 witness: the second run of register_face is alive and stored as the
\* script's process while a stop_script call made during the first run has
\* not returned yet.
C33_Witness ==
    /\ states["register_face"].status = "running"
    /\ states["register_face"].process = 2
    /\ procs[2].alive
    /\ procs[1].stream = "ended"
    /\ \E c \in Callers : callers[c] # None /\ callers[c].process = 1

\* A call of the runner returns or raises in this step / a stop_script call
\* passes its first block in this step.
CallReturns == last_call' # last_call
StopAccepted ==
    \E c \in Callers : callers[c] = None /\ callers'[c] # None

\* C34: a call that raises leaves the status, process, timestamps, exit code
\* and logs of every script, and every process, as they were; a call naming
\* an unknown script raises KeyError; start_script on a script whose status
\* is "running" or "stopping" raises RuntimeError and never starts a process;
\* stop_script called on a script that is not running raises RuntimeError in
\* its first block and never signals a process; a start that raises ValueError or RuntimeError (the
\* command cannot be built, the process cannot be spawned) starts nothing.
C34_RejectionsChangeNothing ==
    [][/\ (CallReturns /\ last_call'.raised # "none") =>
             UNCHANGED <<states, procs, callers, rnow>>
       /\ (CallReturns /\ last_call'.id \notin Scripts) =>
             last_call'.raised = "KeyError"
       /\ (CallReturns /\ last_call'.op = "start"
              /\ last_call'.id \in Scripts
              /\ states[last_call'.id].status \in {"running", "stopping"}) =>
             last_call'.raised = "RuntimeError"
       /\ (CallReturns /\ last_call'.op = "stop"
              /\ callers' = callers
              /\ last_call'.id \in Scripts
              /\ states[last_call'.id].status \notin {"running", "stopping"}) =>
             last_call'.raised = "RuntimeError"
       /\ \A c \in Callers : (StopAccepted /\ callers'[c] # callers[c]) =>
             /\ states[callers'[c].id].status \in {"running", "stopping"}
             /\ callers'[c].process = states[callers'[c].id].process
       /\ Len(procs') > Len(procs) =>
             /\ states[procs'[Len(procs')].script].status
                   \notin {"running", "stopping"}
             /\ CallReturns
             /\ last_call'.raised = "none"
       ]_vars

\* C34 witness: start_script has just raised RuntimeError for register_face
\* while the script is stopping, its process still alive.
C34_Witness ==
    /\ last_call.op = "start"
    /\ last_call.id = "register_face"
    /\ last_call.raised = "RuntimeError"
    /\ states["register_face"].status = "stopping"
    /\ states["register_face"].process # NoProcess
    /\ procs[states["register_face"].process].alive

TerminalStatuses == {"stopped", "completed", "failed"}

\* The _stream_output thread of run i runs its final block in this step.
RunEnds(i) ==
    /\ i \in DOMAIN procs
    /\ procs[i].stream # "ended"
    /\ procs'[i].stream = "ended"

\* C35: the step that ends a run sets the script's status, exit code and
\* finished_at together: the status is "stopped" when stop_script was accepted
\* during that run, otherwise "completed" for return code 0 and "failed" for
\* any other; the status enters a terminal status only by the end of a run, and
\* a terminal status, its exit code and finished_at change only by the next
\* start_script; and, the _stream_output
\* thread being scheduled, every run whose process has exited is ended.
C35_OneTerminalStatusPerRun ==
    /\ [][/\ \A i \in 1..MaxRuns : RunEnds(i) =>
                LET id == procs[i].script
                IN /\ ~procs[i].alive
                   /\ states[id].process = i
                   /\ states'[id].status =
                        (IF procs[i].stops > 0 THEN "stopped"
                         ELSE IF procs[i].code = 0 THEN "completed"
                         ELSE "failed")
                   /\ states'[id].exit_code = procs[i].code
                   /\ states'[id].finished_at = rnow
                   /\ states'[id].finished_at > states'[id].started_at
                   /\ states[id].status \notin TerminalStatuses
          /\ \A id \in Scripts :
                /\ (states'[id].status \in TerminalStatuses
                      /\ states'[id].status # states[id].status) =>
                        \E i \in 1..MaxRuns : RunEnds(i) /\ procs[i].script = id
                /\ (states[id].status \in TerminalStatuses
                      /\ <<states'[id].status, states'[id].exit_code,
                            states'[id].finished_at>> #
                         <<states[id].status, states[id].exit_code,
                           states[id].finished_at>>) =>
                        /\ states'[id].status = "running"
                        /\ Len(procs') > Len(procs)
         ]_vars
    /\ \A i \in 1..MaxRuns :
          (i \in DOMAIN procs /\ ~procs[i].alive) ~>
              (i \in DOMAIN procs /\ procs[i].stream = "ended")

\* C35 witness: the second run of register_face has ended "completed" after
\* the first was stopped, and the stop_script call of the first run has not
\* returned yet.
C35_Witness ==
    /\ Len(procs) = 2
    /\ procs[2].stream = "ended"
    /\ states["register_face"].status = "completed"
    /\ states["register_face"].exit_code = 0
    /\ \E c \in Callers : callers[c] # None /\ callers[c].process = 1

\* The mark_attendance calls for person p on day d that have returned / that
\* have returned created = True / that have committed their row and not
\* returned yet.
ReturnedFor(p, d) ==
    {r \in Requests : /\ requests[r].pc = "returned"
                      /\ requests[r].person_id = p
                      /\ requests[r].today = d}
CreatedFor(p, d) == {r \in ReturnedFor(p, d) : requests[r].created}
CommittedFor(p, d) ==
    {r \in Requests : /\ requests[r].pc = "mark"
                      /\ requests[r].person_id = p
                      /\ requests[r].today = d}

\* C36: the table holds at most one row per person and day; as soon as one
\* mark_attendance call for a person and day has returned the row exists;
\* exactly one call per person and day commits the row and it is the only one
\* that returns created = True with that row; every other call that has
\* returned has returned (None, False), its session rolled back.
C36_OneRecordPerPersonDay ==
    \A p \in Persons, d \in Days :
        /\ Cardinality(Collisions(p, d)) <= 1
        /\ ReturnedFor(p, d) # {} => Cardinality(Collisions(p, d)) = 1
        /\ Cardinality(CreatedFor(p, d)) + Cardinality(CommittedFor(p, d))
              = Cardinality(Collisions(p, d))
        /\ \A r \in ReturnedFor(p, d) :
              /\ requests[r].session = "clean"
              /\ IF requests[r].created
                    THEN requests[r].record \in Collisions(p, d)
                    ELSE requests[r].record = NoRecord

\* C36 witness: two calls for person 1 on the same day passed the cache check
\* together; one has returned created = True, the other's commit has raised
\* IntegrityError and its session is rolled back.
C36_Witness ==
    \E r1, r2 \in Requests :
        /\ requests[r1].pc = "returned"
        /\ requests[r1].created
        /\ requests[r2].pc = "mark_lost"
        /\ requests[r2].session = "clean"
        /\ requests[r2].person_id = requests[r1].person_id
        /\ requests[r2].today = requests[r1].today
        /\ ~requests[r2].read_failed

\* C37: a call whose cache read raises goes on to the insert (it is treated
\* as not marked), and a call whose cache write raises after its commit still
\* returns its record with created = True, the row staying in the table.
C37_CacheFailureTolerated ==
    [][\A r \in Requests :
         /\ (requests[r].pc = "check" /\ requests'[r].read_failed) =>
               /\ requests'[r].pc = "commit"
               /\ requests'[r].session = "pending"
         /\ (requests[r].pc = "mark" /\ requests'[r].write_failed) =>
               /\ requests'[r].pc = "returned"
               /\ requests'[r].created
               /\ requests'[r].record = requests[r].record
               /\ requests'[r].record \in
                     Collisions(requests[r].person_id, requests[r].today)
               /\ attendance' = attendance
      ]_vars

\* C37 witness: a call has returned its record with created = True although
\* both its cache read and its cache write raised; the cache holds no key for
\* it.
C37_Witness ==
    \E r \in Requests :
        /\ requests[r].pc = "returned"
        /\ requests[r].created
        /\ requests[r].read_failed
        /\ requests[r].write_failed
        /\ requests[r].record \in DOMAIN attendance
        /\ CacheKey(requests[r].person_id, requests[r].today) \notin cache_keys

\* The frames delivered to viewer v, as a set.
Got(v) == {delivered[v][k] : k \in DOMAIN delivered[v]}

\* C38: when a broadcast has ended, every viewer that was connected when its
\* frame was received and has been connected ever since has been sent that
\* frame, and every viewer has its frames in the order they were received,
\* each once.
C38_FanoutReachesEveryViewer ==
    /\ (iter_at = 0 /\ video_frame > 0) =>
          \A v \in audience : video_frame \in Got(v)
    /\ \A v \in Viewers : \A j, k \in DOMAIN delivered[v] :
          j < k => delivered[v][j] < delivered[v][k]

\* C20: once the stop signal is raised (running is False) the render loop has
\* ended and the capture device is released; the capture thread's next loop
\* test ends it; ai_worker's next loop test ends it; and the uplink worker does
\* not begin another round of its loop but exits.
C20_ShutdownReachesAll ==
    /\ [](~running => (rpc = "done" /\ ~cam_open))
    /\ [][(~running /\ cpc = "loop" /\ cpc' # cpc) => cpc' = "done"]_vars
    /\ [][(~running /\ aipc = "top" /\ aipc' # aipc) => aipc' = "exit"]_vars
    /\ [][(~running /\ wpc = "backoff" /\ wpc' # wpc) => wpc' = "exited"]_vars

====
